---- MODULE Spec2Model ----
(***************************************************************************)
(* Session-identifier normalisation and target-session resolution of the   *)
(* it2 command-line client (src/src/it2/core/session_handler.py), and the  *)
(* handlers of its `profile`, `monitor` and `app` subcommands              *)
(* (profile.py, monitor.py, app.py of src/src/it2/commands), with `window  *)
(* focus`, `window fullscreen` and the connection check of run_command.    *)
(*                                                                         *)
(* A Python str is a sequence of characters, each character a one-letter   *)
(* TLA+ string ("\n" is the line feed, "U+0663" stands for the single      *)
(* character ARABIC-INDIC DIGIT THREE).  Python's None for an Optional[str]*)
(* is NONE, a value no character sequence equals.  A Session object is a   *)
(* triple <<w, t, s>>, the pane the host created as the s-th session of    *)
(* the t-th tab of the w-th window; None for an Optional[Session] is       *)
(* NoSession.                                                              *)
(***************************************************************************)
EXTENDS Integers, Sequences, FiniteSets, TLC

VARIABLES
    app,            \* the host application: windows, current pointers, by-ID accessor
    op,             \* the function of session_handler.py that ran last ("idle": none yet)
    session_id,     \* its session_id argument
    all_sessions,   \* its all_sessions argument
    ret_id,         \* what normalize_session_id returned
    ret_session,    \* what get_session_by_id returned
    ret_list,       \* what get_target_sessions returned
    outcome,        \* "none" | "returned" | "exit" (sys.exit was called)
    exit_code,      \* the argument of sys.exit, 0 when it was not called
    stderr,         \* the lines printed to sys.stderr
    by_id_calls,    \* the arguments app.get_session_by_id was called with, in order
    active_reads,   \* the current_* attributes of the host that were read, in order
    cmd,            \* the subcommand this invocation runs ("none": a library call only)
    argv,           \* its arguments and options other than --session and --all
    pc,             \* where its handler stands
    profiles,       \* the names of the host's profiles, in the order the host lists them
    pending,        \* the requests sent to the host and not answered yet
    host_calls,     \* every request sent to the host so far, in order
    stdout,         \* what click.echo printed, one entry a call
    target_session, \* the handler's target_session
    event,          \* what the await completed last handed to the handler
    iterations,     \* how many times the body of `while True` was entered
    interrupted,    \* whether KeyboardInterrupt was raised in the handler
    session_activity, \* the dict of `monitor activity`
    cursor,         \* the session (for `window focus`: the window) its for loops stand at
    connection,     \* "established", or "failed": no cookie and no connection to the host
    broadcast_domains \* the domains the host was last told to broadcast input to

\* The state of a subcommand's handler.
clivars == <<cmd, argv, pc, profiles, pending, host_calls, stdout, target_session,
             event, iterations, interrupted, session_activity, cursor, connection,
             broadcast_domains>>

vars == <<app, op, session_id, all_sessions, ret_id, ret_session, ret_list,
          outcome, exit_code, stderr, by_id_calls, active_reads, clivars>>

\* ------------------------------------------------------------ bounds

\* Longest run of digits in a generated w<N>t<N>p<N> prefix.
MaxDigits == 2
\* Most windows of the host, most tabs of a window, most sessions of a tab.
MaxWindows == 2
MaxTabs == 2
MaxSessions == 2
\* How many times the body of a monitoring loop is entered with an event to
\* handle (for `monitor activity`: the number of its passes over the sessions).
MaxIterations == 2
\* The largest number of sessions of a host that `monitor activity` watches.
MaxPanes == 2

\* ------------------------------------------------------------ values

NONE == <<"None">>
NoSession == <<>>
Session(w, t, s) == <<w, t, s>>

Min(a, b) == IF a <= b THEN a ELSE b

\* ------------------------------------------------------------ the patterns

\* \d of a str pattern: every Unicode decimal digit, not only 0-9.
Digits == {"0", "1", "2", "3", "4", "5", "6", "7", "8", "9", "U+0663"}

\* [0-9A-Fa-f]
HexChars == {"0", "1", "2", "3", "4", "5", "6", "7", "8", "9",
             "a", "b", "c", "d", "e", "f", "A", "B", "C", "D", "E", "F"}

\* The {8}-{4}-{4}-{4}-{12} of _UUID_PATTERN.
UuidGroups == <<8, 4, 4, 4, 12>>

\* _UUID_PATTERN tried at position i of s, from its g-th group on: the position
\* after the match, or 0 when it does not match.
RECURSIVE UuidEnd(_, _, _)
UuidEnd(s, i, g) ==
    LET n == UuidGroups[g]
        hex == i + n - 1 <= Len(s) /\ \A k \in i..(i + n - 1) : s[k] \in HexChars
    IN  IF ~hex THEN 0
        ELSE IF g = Len(UuidGroups) THEN i + n
        ELSE IF i + n <= Len(s) /\ s[i + n] = "-" THEN UuidEnd(s, i + n + 1, g + 1)
        ELSE 0

\* \d+ tried at position i of s: the position after the longest run of digits
\* (i itself when there is none).  The pattern follows each \d+ by a character
\* that is no digit, so the longest run is the only one that can match.
RECURSIVE DigitsEnd(_, _)
DigitsEnd(s, i) ==
    IF i <= Len(s) /\ s[i] \in Digits THEN DigitsEnd(s, i + 1) ELSE i

\* $ without re.MULTILINE at position e: the end of the string, or just before
\* a line feed that ends the string.
AtDollar(s, e) ==
    \/ e = Len(s) + 1
    \/ e = Len(s) /\ s[e] = "\n"

\* A variant of AliasMatch whose group takes whatever follows the separator,
\* as a pattern (?P<uuid>.+) would.
AliasMatchAnyTail(s, sep) ==
    IF ~(Len(s) >= 1 /\ s[1] = "w") THEN NONE
    ELSE LET i1 == DigitsEnd(s, 2) IN
    IF ~(i1 > 2 /\ i1 <= Len(s) /\ s[i1] = "t") THEN NONE
    ELSE LET i2 == DigitsEnd(s, i1 + 1) IN
    IF ~(i2 > i1 + 1 /\ i2 <= Len(s) /\ s[i2] = "p") THEN NONE
    ELSE LET i3 == DigitsEnd(s, i2 + 1) IN
    IF ~(i3 > i2 + 1 /\ i3 < Len(s) /\ s[i3] = sep) THEN NONE
    ELSE SubSeq(s, i3 + 1, Len(s))

\* re.compile(rf"^w\d+t\d+p\d+{sep}(?P<uuid>{_UUID_PATTERN})$").match(s): the
\* uuid group of the match, or NONE when match() returns None.
AliasMatch(s, sep) ==
    IF ~(Len(s) >= 1 /\ s[1] = "w") THEN NONE
    ELSE LET i1 == DigitsEnd(s, 2) IN
    IF ~(i1 > 2 /\ i1 <= Len(s) /\ s[i1] = "t") THEN NONE
    ELSE LET i2 == DigitsEnd(s, i1 + 1) IN
    IF ~(i2 > i1 + 1 /\ i2 <= Len(s) /\ s[i2] = "p") THEN NONE
    ELSE LET i3 == DigitsEnd(s, i2 + 1) IN
    IF ~(i3 > i2 + 1 /\ i3 <= Len(s) /\ s[i3] = sep) THEN NONE
    ELSE LET e == UuidEnd(s, i3 + 1, 1) IN
    IF e # 0 /\ AtDollar(s, e) THEN SubSeq(s, i3 + 1, e - 1) ELSE NONE

ITERM_SESSION_ID_RE(s) == AliasMatch(s, ":")
TERMID_RE(s) == AliasMatch(s, ".")

ACTIVE == <<"a", "c", "t", "i", "v", "e">>
ALL == <<"a", "l", "l">>

\* ------------------------------------------------------------ normalize_session_id

\* A variant of normalize_session_id that forgets the term-ID form.
normalize_colon_only(sid) ==
    IF sid = NONE THEN NONE
    ELSE IF sid \in {ACTIVE, ALL} THEN sid
    ELSE IF ITERM_SESSION_ID_RE(sid) # NONE THEN ITERM_SESSION_ID_RE(sid)
    ELSE sid

normalize_session_id(sid) ==
    IF sid = NONE THEN NONE
    ELSE IF sid \in {ACTIVE, ALL} THEN sid
    ELSE IF ITERM_SESSION_ID_RE(sid) # NONE THEN ITERM_SESSION_ID_RE(sid)
    ELSE IF TERMID_RE(sid) # NONE THEN TERMID_RE(sid)
    ELSE sid

\* ------------------------------------------------------------ get_session_by_id

\* app.get_session_by_id(sid) of the host: the session the host knows under
\* sid, None when it knows none.
HostLookup(a, sid) ==
    IF sid \in DOMAIN a.by_id THEN a.by_id[sid] ELSE NoSession

\* A variant of get_session_by_id that hands the id to the host as it was given.
get_session_by_id_as_given(a, sid) ==
    IF sid = NONE THEN [session |-> NoSession, calls |-> <<>>]
    ELSE [session |-> HostLookup(a, sid), calls |-> <<sid>>]

\* A variant of get_session_by_id without the retry under the original id.
get_session_by_id_no_retry(a, sid) ==
    IF sid = NONE THEN [session |-> NoSession, calls |-> <<>>]
    ELSE LET normalized == normalize_session_id(sid) IN
    [session |-> HostLookup(a, normalized), calls |-> <<normalized>>]

\* The session returned and the calls made to the host's accessor.
get_session_by_id(a, sid) ==
    IF sid = NONE THEN [session |-> NoSession, calls |-> <<>>]
    ELSE LET normalized == normalize_session_id(sid) IN
    IF normalized = NONE THEN [session |-> NoSession, calls |-> <<>>]
    ELSE LET session == HostLookup(a, normalized) IN
    IF session # NoSession THEN [session |-> session, calls |-> <<normalized>>]
    ELSE IF normalized # sid
         THEN [session |-> HostLookup(a, sid), calls |-> <<normalized, sid>>]
         ELSE [session |-> NoSession, calls |-> <<normalized>>]

\* ------------------------------------------------------------ get_target_sessions

\* A line on sys.stderr: the f-string and the value it interpolates (NONE when
\* it interpolates nothing).
Line(fmt, arg) == [fmt |-> fmt, arg |-> arg]

\* What one call of get_target_sessions did.
Returned(sessions, calls, reads) ==
    [outcome |-> "returned", sessions |-> sessions, exit_code |-> 0,
     stderr |-> <<>>, by_id_calls |-> calls, active_reads |-> reads]

\* print(..., file=sys.stderr); sys.exit(3)
Exit3(line, calls, reads) ==
    [outcome |-> "exit", sessions |-> <<>>, exit_code |-> 3,
     stderr |-> <<line>>, by_id_calls |-> calls, active_reads |-> reads]

\* A variant of ExtendTabs that assigns where the code extends: the sessions of
\* the last tab replace what was collected.
RECURSIVE AssignTabs(_, _)
AssignTabs(sessions, tabs) ==
    IF tabs = <<>> THEN sessions
    ELSE AssignTabs(Head(tabs).sessions, Tail(tabs))

\* for tab in window.tabs: sessions.extend(tab.sessions)
RECURSIVE ExtendTabs(_, _)
ExtendTabs(sessions, tabs) ==
    IF tabs = <<>> THEN sessions
    ELSE ExtendTabs(sessions \o Head(tabs).sessions, Tail(tabs))

\* for window in app.windows: for tab in window.tabs: ...
RECURSIVE ExtendWindows(_, _)
ExtendWindows(sessions, windows) ==
    IF windows = <<>> THEN sessions
    ELSE ExtendWindows(ExtendTabs(sessions, Head(windows).tabs), Tail(windows))

\* A variant of AllRule that takes an empty list for a failure, as the
\* by-ID and the active-session rules do.
AllRuleNonEmpty(a) ==
    LET sessions == ExtendWindows(<<>>, a.windows) IN
    IF sessions = <<>>
    THEN Exit3(Line("Error: No active session found", NONE), <<>>, <<>>)
    ELSE Returned(sessions, <<>>, <<>>)

\* Rule 1: every session of the hierarchy.
AllRule(a) == Returned(ExtendWindows(<<>>, a.windows), <<>>, <<>>)

\* A variant of ActiveRule whose missing-tab branch prints the message of the
\* missing-session branch.
ActiveRuleWrongMessage(a) ==
    IF a.current_terminal_window = 0
    THEN Exit3(Line("Error: No active window found", NONE), <<>>,
               <<"current_terminal_window">>)
    ELSE LET current_window == a.windows[a.current_terminal_window] IN
    IF current_window.current_tab = 0
    THEN Exit3(Line("Error: No active session found", NONE), <<>>,
               <<"current_terminal_window", "current_tab">>)
    ELSE LET current_tab == current_window.tabs[current_window.current_tab] IN
    IF current_tab.current_session = NoSession
    THEN Exit3(Line("Error: No active session found", NONE), <<>>,
               <<"current_terminal_window", "current_tab", "current_session">>)
    ELSE Returned(<<current_tab.current_session>>, <<>>,
                  <<"current_terminal_window", "current_tab", "current_session">>)

\* A variant of ActiveRule that returns the first session of the current tab
\* where the code returns the tab's current session.
ActiveRuleFirstSession(a) ==
    IF a.current_terminal_window = 0
    THEN Exit3(Line("Error: No active window found", NONE), <<>>,
               <<"current_terminal_window">>)
    ELSE LET current_window == a.windows[a.current_terminal_window] IN
    IF current_window.current_tab = 0
    THEN Exit3(Line("Error: No active tab found", NONE), <<>>,
               <<"current_terminal_window", "current_tab">>)
    ELSE LET current_tab == current_window.tabs[current_window.current_tab] IN
    IF current_tab.current_session = NoSession
    THEN Exit3(Line("Error: No active session found", NONE), <<>>,
               <<"current_terminal_window", "current_tab", "current_session">>)
    ELSE Returned(<<current_tab.sessions[1]>>, <<>>,
                  <<"current_terminal_window", "current_tab", "current_session">>)

\* Rule 3: the current session of the current tab of the current window.
ActiveRule(a) ==
    IF a.current_terminal_window = 0
    THEN Exit3(Line("Error: No active window found", NONE), <<>>,
               <<"current_terminal_window">>)
    ELSE LET current_window == a.windows[a.current_terminal_window] IN
    IF current_window.current_tab = 0
    THEN Exit3(Line("Error: No active tab found", NONE), <<>>,
               <<"current_terminal_window", "current_tab">>)
    ELSE LET current_tab == current_window.tabs[current_window.current_tab] IN
    IF current_tab.current_session = NoSession
    THEN Exit3(Line("Error: No active session found", NONE), <<>>,
               <<"current_terminal_window", "current_tab", "current_session">>)
    ELSE Returned(<<current_tab.current_session>>, <<>>,
                  <<"current_terminal_window", "current_tab", "current_session">>)

\* A variant of SessionNotFound that names the normalized id.
SessionNotFoundNormalized(sid) ==
    Line("Error: Session '{session_id}' not found", normalize_session_id(sid))

\* The error of rule 2.
SessionNotFound(sid) == Line("Error: Session '{session_id}' not found", sid)

\* A variant of ByIdRule that goes on to the active session when the lookup
\* finds nothing.
ByIdRuleFallsThrough(a, sid) ==
    LET found == get_session_by_id(a, sid) IN
    IF found.session = NoSession
    THEN ActiveRule(a)
    ELSE Returned(<<found.session>>, found.calls, <<>>)

\* Rule 2: the session looked up by its id.
ByIdRule(a, sid) ==
    LET found == get_session_by_id(a, sid) IN
    IF found.session = NoSession
    THEN Exit3(SessionNotFound(sid), found.calls, <<>>)
    ELSE Returned(<<found.session>>, found.calls, <<>>)

\* `if session_id and session_id != "active"`: a str is true unless it is empty.
IsSpecificId(sid) == sid # NONE /\ sid # <<>> /\ sid # ACTIVE

\* A variant of get_target_sessions that tries the by-ID rule first.
get_target_sessions_id_first(a, sid, all) ==
    IF IsSpecificId(sid) /\ sid # ALL THEN ByIdRule(a, sid)
    ELSE IF all \/ sid = ALL THEN AllRule(a)
    ELSE ActiveRule(a)

get_target_sessions(a, sid, all) ==
    IF all \/ sid = ALL THEN AllRule(a)
    ELSE IF IsSpecificId(sid) THEN ByIdRule(a, sid)
    ELSE ActiveRule(a)

\* ------------------------------------------------------------ inputs

\* Two well-formed UUIDs, one in lower case and one in mixed case.
UUID_LOWER ==
    <<"a","1","b","2","c","3","d","4">> \o <<"-">> \o <<"e","5","f","6">> \o <<"-">>
    \o <<"7","8","9","0">> \o <<"-">> \o <<"a","b","c","d">> \o <<"-">>
    \o <<"e","f","1","2","3","4","5","6","7","8","9","0">>
UUID_MIXED ==
    <<"A","1","b","2","C","3","d","4">> \o <<"-">> \o <<"E","5","F","6">> \o <<"-">>
    \o <<"7","8","9","0">> \o <<"-">> \o <<"a","B","c","D">> \o <<"-">>
    \o <<"e","f","1","2","3","4","5","6","7","8","9","0">>
UuidSamples == {UUID_LOWER, UUID_MIXED}

\* Strings that are no UUID: a character short, a character long, a letter that
\* is no hexadecimal digit, a hyphen missing, a hyphen one place early, empty.
BadUuidSamples ==
    { SubSeq(UUID_LOWER, 1, Len(UUID_LOWER) - 1),
      UUID_LOWER \o <<"0">>,
      [UUID_MIXED EXCEPT ![3] = "g"],
      SubSeq(UUID_LOWER, 1, 8) \o SubSeq(UUID_LOWER, 10, Len(UUID_LOWER)),
      [[UUID_LOWER EXCEPT ![8] = "-"] EXCEPT ![9] = "4"],
      <<>> }

\* Runs of decimal digits of 1..MaxDigits characters.
DigitSamples == {"0", "7"}
DigitStrings ==
    UNION { [1..n -> DigitSamples] : n \in 1..MaxDigits } \cup {<<"U+0663">>}

AliasPrefix(a, b, c) == <<"w">> \o a \o <<"t">> \o b \o <<"p">> \o c
W0T0P0 == AliasPrefix(<<"0">>, <<"0">>, <<"0">>)

\* The two alias forms, over every prefix and UUID sample.
AliasSamples ==
    { AliasPrefix(a, b, c) \o <<sep>> \o u :
        a \in DigitStrings, b \in DigitStrings, c \in DigitStrings,
        sep \in {":", "."}, u \in UuidSamples }

\* Near misses: something before, a prefix with a group missing or in another
\* shape, another separator, a malformed UUID, something after.
BeforeSamples == {<<>>, <<"x">>, <<" ">>, <<"\n">>}
PrefixSamples ==
    { <<>>, W0T0P0, AliasPrefix(<<"1", "2">>, <<"3">>, <<"4", "5">>),
      AliasPrefix(<<>>, <<"0">>, <<"0">>), AliasPrefix(<<"0">>, <<>>, <<"0">>),
      AliasPrefix(<<"0">>, <<"0">>, <<>>), <<"W","0","t","0","p","0">>,
      <<"w","0","p","0","t","0">>, <<"w","0","x","t","0","p","0">>,
      <<"w","-","1","t","0","p","0">> }
SeparatorSamples == {<<>>, <<":">>, <<".">>, <<"-">>, <<":", ":">>}
AfterSamples == {<<>>, <<"x">>, <<" ">>, <<"\n">>, <<"\n", "\n">>, <<"\n", "x">>}
NearMissSamples ==
    { pre \o p \o sep \o u \o post :
        pre \in BeforeSamples, p \in PrefixSamples, sep \in SeparatorSamples,
        u \in UuidSamples \cup BadUuidSamples, post \in AfterSamples }

NONEXISTENT_ID ==
    <<"n","o","n","e","x","i","s","t","e","n","t","-","i","d">>

\* An alias whose UUID part is itself an alias.
NestedSamples ==
    { W0T0P0 \o <<sep1>> \o W0T0P0 \o <<sep2>> \o UUID_LOWER :
        sep1 \in {":", "."}, sep2 \in {":", "."} }

\* The arguments normalize_session_id is applied to.
NormalizeInputs ==
    {NONE, ACTIVE, ALL, NONEXISTENT_ID} \cup AliasSamples \cup NearMissSamples
    \cup NestedSamples

ALIAS_COLON == W0T0P0 \o <<":">> \o UUID_LOWER
ALIAS_DOT == W0T0P0 \o <<".">> \o UUID_MIXED

\* The session_id arguments of get_session_by_id and get_target_sessions.
SessionIdArgs ==
    { NONE, <<>>, ACTIVE, ALL, NONEXISTENT_ID, UUID_LOWER, UUID_MIXED,
      ALIAS_COLON, ALIAS_DOT, ALIAS_COLON \o <<"\n">>,
      W0T0P0 \o <<":">> \o [UUID_MIXED EXCEPT ![3] = "g"] }

\* ------------------------------------------------------------ the host

\* A tab of n sessions whose current session is its cs-th (None when it has no
\* cs-th session).
MakeTab(w, t, n, cs) ==
    [sessions |-> [s \in 1..n |-> Session(w, t, s)],
     current_session |-> IF cs \in 1..n THEN Session(w, t, cs) ELSE NoSession]

\* A window of nt tabs of ns sessions each; a ragged window w has at most w
\* tabs and its t-th tab at most t sessions.  current_tab is an index into
\* tabs, 0 for None.
MakeWindow(w, nt, ns, ragged, ct, cs) ==
    LET k == IF ragged THEN Min(w, nt) ELSE nt IN
    [tabs |-> [t \in 1..k |-> MakeTab(w, t, IF ragged THEN Min(t, ns) ELSE ns, cs)],
     current_tab |-> IF ct \in 1..k THEN ct ELSE 0]

\* The window/tab/session hierarchies.  current_terminal_window is an index
\* into windows, 0 for None.
Hierarchies ==
    { [windows |-> [w \in 1..nw |-> MakeWindow(w, nt, ns, ragged, ct, cs)],
       current_terminal_window |-> cw] :
        nw \in 0..MaxWindows, nt \in 0..MaxTabs, ns \in 0..MaxSessions,
        ragged \in BOOLEAN, cw \in 0..MaxWindows, ct \in 0..MaxTabs,
        cs \in 0..MaxSessions }

\* What the host's by-ID accessor knows, for a host whose sessions are `all`:
\* nothing; the first session under its UUID; the first session under an alias
\* only; the first session under the UUID and the last one under the alias of
\* the same UUID; the last session under the other alias only.
ByIdTables(all) ==
    IF all = <<>> THEN {<<>>}
    ELSE LET first == all[1]
             last == all[Len(all)]
         IN  { <<>>,
               UUID_LOWER :> first,
               ALIAS_COLON :> first,
               (UUID_LOWER :> first) @@ (ALIAS_COLON :> last),
               ALIAS_DOT :> last }

Hosts ==
    UNION { { [windows |-> h.windows,
               current_terminal_window |-> h.current_terminal_window,
               by_id |-> table] :
                table \in ByIdTables(ExtendWindows(<<>>, h.windows)) } :
            h \in { g \in Hierarchies : g.current_terminal_window <= Len(g.windows) } }

\* A host with no window, for the calls that never look at the host.
NoHost == [windows |-> <<>>, current_terminal_window |-> 0, by_id |-> <<>>]

\* ------------------------------------------------------------ the state machine

\* The arguments a subcommand leaves unset.
NoArgs ==
    [name |-> NONE, as_json |-> FALSE, property_name |-> NONE, value |-> NONE,
     pattern |-> NONE, follow |-> FALSE, app_level |-> FALSE,
     session_ids |-> <<>>, force |-> FALSE, confirmed |-> FALSE,
     window_id |-> NONE, mode |-> NONE]

\* What an await hands to the handler: the value of the host's answer, None
\* for an answer of None, or an exception raised in place of an answer.
Answer(v) == [kind |-> "value", value |-> v]
AnswerNone == [kind |-> "none", value |-> <<>>]
AnswerRaised == [kind |-> "raised", value |-> <<>>]

\* No subcommand runs: the functions of session_handler.py are called directly.
NoCommand ==
    /\ cmd = "none"
    /\ argv = NoArgs
    /\ pc = "none"
    /\ profiles = <<>>
    /\ pending = <<>>
    /\ host_calls = <<>>
    /\ stdout = <<>>
    /\ target_session = NoSession
    /\ event = AnswerNone
    /\ iterations = 0
    /\ interrupted = FALSE
    /\ session_activity = <<>>
    /\ cursor = 0
    /\ connection = "established"
    /\ broadcast_domains = <<>>

\* No function of session_handler.py has run yet.
Idle ==
    /\ op = "idle"
    /\ all_sessions = FALSE
    /\ ret_id = NONE
    /\ ret_session = NoSession
    /\ ret_list = <<>>
    /\ outcome = "none"
    /\ exit_code = 0
    /\ stderr = <<>>
    /\ by_id_calls = <<>>
    /\ active_reads = <<>>

Init ==
    /\ app \in Hosts
    /\ session_id = NONE
    /\ Idle
    /\ NoCommand

\* normalize_session_id(session_id), on the argument the initial state holds.
CallNormalize ==
    /\ op = "idle"
    /\ op' = "normalize"
    /\ ret_id' = normalize_session_id(session_id)
    /\ outcome' = "returned"
    /\ UNCHANGED <<app, session_id, all_sessions, ret_session, ret_list, exit_code,
                   stderr, by_id_calls, active_reads, clivars>>

\* get_session_by_id(app, sid), once in a run of the program
CallGetSessionById(sid) ==
    LET r == get_session_by_id(app, sid) IN
    /\ op = "idle"
    /\ op' = "get_session_by_id"
    /\ session_id' = sid
    /\ all_sessions' = FALSE
    /\ ret_id' = NONE
    /\ ret_session' = r.session
    /\ ret_list' = <<>>
    /\ outcome' = "returned"
    /\ exit_code' = 0
    /\ stderr' = <<>>
    /\ by_id_calls' = r.calls
    /\ active_reads' = <<>>
    /\ UNCHANGED <<app, clivars>>

\* get_target_sessions(app, sid, all), once in a run of the program
CallGetTargetSessions(sid, all) ==
    LET r == get_target_sessions(app, sid, all) IN
    /\ op = "idle"
    /\ op' = "get_target_sessions"
    /\ session_id' = sid
    /\ all_sessions' = all
    /\ ret_id' = NONE
    /\ ret_session' = NoSession
    /\ ret_list' = r.sessions
    /\ outcome' = r.outcome
    /\ exit_code' = r.exit_code
    /\ stderr' = r.stderr
    /\ by_id_calls' = r.by_id_calls
    /\ active_reads' = r.active_reads
    /\ UNCHANGED <<app, clivars>>

Next ==
    \/ \E sid \in SessionIdArgs : CallGetSessionById(sid)
    \/ \E sid \in SessionIdArgs, all \in BOOLEAN : CallGetTargetSessions(sid, all)

Spec == Init /\ [][Next]_vars

\* The pure function on its own: the initial state draws the argument.
InitNormalize ==
    /\ app = NoHost
    /\ session_id \in NormalizeInputs
    /\ Idle
    /\ NoCommand

NextNormalize == CallNormalize

SpecNormalize == InitNormalize /\ [][NextNormalize]_vars

\* ------------------------------------------------------------ Python text

\* sep.join(parts)
RECURSIVE Join(_, _)
Join(parts, sep) ==
    IF Len(parts) = 0 THEN <<>>
    ELSE IF Len(parts) = 1 THEN parts[1]
    ELSE parts[1] \o sep \o Join(Tail(parts), sep)

\* The characters str.strip(), float() and int() take for white space.
Whitespace == {" ", "\t", "\n", "\r"}

RECURSIVE lstrip(_)
lstrip(s) == IF Len(s) >= 1 /\ s[1] \in Whitespace THEN lstrip(Tail(s)) ELSE s

RECURSIVE rstrip(_)
rstrip(s) ==
    IF Len(s) >= 1 /\ s[Len(s)] \in Whitespace
    THEN rstrip(SubSeq(s, 1, Len(s) - 1)) ELSE s

\* s.strip()
strip(s) == rstrip(lstrip(s))

UpperLetters == <<"A", "B", "C", "D", "E", "F", "G", "H", "I", "J", "K", "L", "M", "N", "O", "P", "Q", "R", "S", "T", "U", "V", "W", "X", "Y", "Z">>
LowerLetters == <<"a", "b", "c", "d", "e", "f", "g", "h", "i", "j", "k", "l", "m", "n", "o", "p", "q", "r", "s", "t", "u", "v", "w", "x", "y", "z">>

\* s.lower(), on ASCII text
lower(s) ==
    [i \in 1..Len(s) |->
        IF \E k \in 1..Len(UpperLetters) : UpperLetters[k] = s[i]
        THEN LowerLetters[CHOOSE k \in 1..Len(UpperLetters) : UpperLetters[k] = s[i]]
        ELSE s[i]]

AsciiDigits == {"0", "1", "2", "3", "4", "5", "6", "7", "8", "9"}

\* An exception raised where a value was expected, and a value.
Raised == [raised |-> TRUE, value |-> NONE]
Value(v) == [raised |-> FALSE, value |-> v]

\* s without its leading zeros, "0" when nothing is left
RECURSIVE IntegerPart(_)
IntegerPart(s) ==
    IF Len(s) = 0 THEN <<"0">>
    ELSE IF s[1] = "0" /\ Len(s) > 1 THEN IntegerPart(Tail(s))
    ELSE s

\* s without its trailing zeros, "0" when nothing is left
RECURSIVE FractionPart(_)
FractionPart(s) ==
    IF Len(s) = 0 THEN <<"0">>
    ELSE IF s[Len(s)] = "0" /\ Len(s) > 1 THEN FractionPart(SubSeq(s, 1, Len(s) - 1))
    ELSE s

\* The first position of character c in s, 0 when s has none.
RECURSIVE IndexFrom(_, _, _)
IndexFrom(s, c, i) ==
    IF i > Len(s) THEN 0 ELSE IF s[i] = c THEN i ELSE IndexFrom(s, c, i + 1)

\* The last position of character c in s, 0 when s has none.
RECURSIVE LastIndexFrom(_, _, _)
LastIndexFrom(s, c, i) ==
    IF i < 1 THEN 0 ELSE IF s[i] = c THEN i ELSE LastIndexFrom(s, c, i - 1)

\* float(s), its result written as str() writes it.  Covered: white space
\* around the text, a sign, decimal digits with at most one point (fewer than
\* sixteen digits, so str() uses no exponent), and inf, infinity, nan in any
\* case.  Text with an exponent or an underscore is drawn by no input.
float(s) ==
    LET t == strip(s)
        signed == Len(t) >= 1 /\ t[1] \in {"+", "-"}
        minus == IF signed /\ t[1] = "-" THEN <<"-">> ELSE <<>>
        body == IF signed THEN Tail(t) ELSE t
        point == IndexFrom(body, ".", 1)
        whole == IF point = 0 THEN body ELSE SubSeq(body, 1, point - 1)
        fraction == IF point = 0 THEN <<>> ELSE SubSeq(body, point + 1, Len(body))
    IN  IF lower(body) \in {<<"i", "n", "f">>, <<"i", "n", "f", "i", "n", "i", "t", "y">>}
        THEN Value(minus \o <<"i", "n", "f">>)
        ELSE IF lower(body) = <<"n", "a", "n">> THEN Value(<<"n", "a", "n">>)
        ELSE IF /\ Len(whole) + Len(fraction) >= 1
                /\ \A i \in 1..Len(whole) : whole[i] \in AsciiDigits
                /\ \A i \in 1..Len(fraction) : fraction[i] \in AsciiDigits
        THEN Value(minus \o IntegerPart(whole) \o <<".">> \o FractionPart(fraction))
        ELSE Raised

\* _parse_font_string(font_str): the family and the size of "Monaco 12"
_parse_font_string(font_str) ==
    LET space == LastIndexFrom(font_str, " ", Len(font_str))
        size == IF space = 0 THEN Raised
                ELSE float(SubSeq(font_str, space + 1, Len(font_str)))
    IN  IF space # 0 /\ ~size.raised
        THEN [family |-> SubSeq(font_str, 1, space - 1), size |-> size.value]
        ELSE [family |-> font_str, size |-> <<"0", ".", "0">>]

HexOrder == <<"0", "1", "2", "3", "4", "5", "6", "7", "8", "9", "a", "b", "c", "d", "e", "f">>

\* The value of one hexadecimal digit.
HexDigit(c) ==
    LET l == lower(<<c>>)[1] IN (CHOOSE k \in 1..Len(HexOrder) : HexOrder[k] = l) - 1

\* int(s, 16) of a slice of at most two characters: white space around the
\* digits and a sign before them are taken.
int16(s) ==
    LET t == strip(s)
        signed == Len(t) >= 1 /\ t[1] \in {"+", "-"}
        body == IF signed THEN Tail(t) ELSE t
        magnitude == IF Len(body) = 2 THEN 16 * HexDigit(body[1]) + HexDigit(body[2])
                     ELSE HexDigit(body[1])
    IN  IF Len(body) >= 1 /\ \A i \in 1..Len(body) : body[i] \in HexChars
        THEN Value(IF signed /\ t[1] = "-" THEN 0 - magnitude ELSE magnitude)
        ELSE Raised

\* _parse_color(color_str): iterm2.Color(r, g, b), or ValueError
_parse_color(color_str) ==
    LET hex == IF Len(color_str) >= 1 /\ color_str[1] = "#" THEN Tail(color_str)
               ELSE color_str
    IN  IF Len(hex) = 6
        THEN LET r == int16(SubSeq(hex, 1, 2))
                 g == int16(SubSeq(hex, 3, 4))
                 b == int16(SubSeq(hex, 5, 6))
             IN  IF r.raised \/ g.raised \/ b.raised THEN Raised
                 ELSE Value(<<r.value, g.value, b.value>>)
        ELSE Raised

\* How often character c occurs in s.
RECURSIVE Count(_, _)
Count(s, c) ==
    IF Len(s) = 0 THEN 0 ELSE (IF s[1] = c THEN 1 ELSE 0) + Count(Tail(s), c)

\* A variant of re_error for a compiler that takes every pattern.
re_error_never(pattern) == FALSE

\* re.compile(pattern) raises re.error: nothing to repeat, an unterminated
\* character set, or unbalanced parentheses.
re_error(pattern) ==
    \/ Len(pattern) >= 1 /\ pattern[1] \in {"*", "+", "?"}
    \/ \E i \in 1..Len(pattern) :
        /\ pattern[i] = "["
        /\ \A j \in (i + 2)..Len(pattern) : pattern[j] # "]"
    \/ Count(pattern, "(") # Count(pattern, ")")

\* Whether pattern[i..] matches s from position j on.  Covered: "^", "$", "."
\* and characters that stand for themselves; the valid patterns drawn use
\* nothing else.
RECURSIVE MatchHere(_, _, _, _)
MatchHere(pattern, i, s, j) ==
    IF i > Len(pattern) THEN TRUE
    ELSE IF pattern[i] = "^" THEN j = 1 /\ MatchHere(pattern, i + 1, s, j)
    ELSE IF pattern[i] = "$" THEN AtDollar(s, j) /\ MatchHere(pattern, i + 1, s, j)
    ELSE /\ j <= Len(s)
         /\ IF pattern[i] = "." THEN s[j] # "\n" ELSE s[j] = pattern[i]
         /\ MatchHere(pattern, i + 1, s, j + 1)

\* regex.search(s) finds a match
regex_search(pattern, s) == \E j \in 1..(Len(s) + 1) : MatchHere(pattern, 1, s, j)

\* ------------------------------------------------------------ a handler and the host

\* handle_error(message, exit_code) of it2.core.errors: the message goes to the
\* user and the process ends with the exit code.
handle_error(message, code) == [stderr |-> <<message>>, exit_code |-> code]

\* What the arguments and the host given to an invocation are: no handler
\* changes them.
given == <<app, op, session_id, all_sessions, ret_id, ret_session, ret_list,
           cmd, argv, profiles, connection, broadcast_domains>>

\* `await request`: the request goes to the host and the handler waits for
\* the answer.
Await(request) ==
    /\ pending' = Append(pending, request)
    /\ host_calls' = Append(host_calls, request)
    /\ pc' = request

\* A variant of Awaited for a handler that goes on without the answer.
NotAwaited(request) == pc = request

\* The answer to the request the handler waits for has arrived.
Awaited(request) == pc = request /\ pending = <<>>

\* The handler prints the lines and awaits the request.
Continue(lines, request) ==
    /\ Await(request)
    /\ stdout' = stdout \o lines
    /\ UNCHANGED <<outcome, exit_code, stderr>>

\* The handler ends in handle_error.
Exits(h) ==
    /\ pc' = "done"
    /\ outcome' = "exit"
    /\ exit_code' = h.exit_code
    /\ stderr' = stderr \o h.stderr
    /\ UNCHANGED <<pending, host_calls, stdout>>

\* `sessions[0]` of an empty list raises IndexError, which no handler
\* catches: the exception leaves the handler, Python reports it and the
\* process ends with code 1.
RaisesIndexError ==
    /\ pc' = "done"
    /\ outcome' = "raised"
    /\ exit_code' = 1
    /\ stderr' = stderr \o <<Line("IndexError: list index out of range", NONE)>>
    /\ UNCHANGED <<pending, host_calls, stdout>>

\* The handler prints the lines and returns: the process ends with code 0.
Returns(lines) ==
    /\ pc' = "done"
    /\ outcome' = "returned"
    /\ exit_code' = 0
    /\ stdout' = stdout \o lines
    /\ UNCHANGED <<stderr, pending, host_calls>>

\* What a handler that resolves no session and runs no loop leaves alone.
unresolved == <<by_id_calls, active_reads, target_session>>
loopless == <<iterations, interrupted, session_activity, cursor>>

\* ------------------------------------------------------------ profile show, apply, set

PROFILES_QUERY == "PartialProfile.async_query"
GET_FULL_PROFILE == "async_get_full_profile"
SET_PROFILE == "async_set_profile"

\* A variant of FindProfile that takes the first profile whatever its name.
FindFirstProfile(profs, name) == IF Len(profs) >= 1 THEN 1 ELSE 0

\* for p in profiles: if p.name == name: target_profile = p; break.  The
\* position of target_profile in profiles, 0 for None.
FindProfile(profs, name) ==
    IF \E i \in 1..Len(profs) : profs[i] = name
    THEN CHOOSE i \in 1..Len(profs) :
            profs[i] = name /\ \A j \in 1..(i - 1) : profs[j] # name
    ELSE 0

ProfileNotFound(name) == handle_error(Line("Profile '{name}' not found", name), 3)

\* What handle_error leaves of a resolution.
Handled(h, calls, reads) ==
    [outcome |-> "exit", sessions |-> <<>>, exit_code |-> h.exit_code,
     stderr |-> h.stderr, by_id_calls |-> calls, active_reads |-> reads]

\* `profile apply`: the session of --session, the current one without it.
apply_target(a, session) ==
    IF session # NONE /\ session # <<>>
    THEN LET found == HostLookup(a, session) IN
         IF found = NoSession
         THEN Handled(handle_error(Line("Session '{session}' not found", session), 3),
                      <<session>>, <<>>)
         ELSE Returned(<<found>>, <<session>>, <<>>)
    ELSE IF a.current_terminal_window = 0
    THEN Handled(handle_error(Line("No current window", NONE), 3), <<>>,
                 <<"current_terminal_window">>)
    ELSE LET window == a.windows[a.current_terminal_window] IN
    IF window.current_tab = 0
    THEN Handled(handle_error(Line("No current tab", NONE), 3), <<>>,
                 <<"current_terminal_window", "current_tab">>)
    ELSE LET tab == window.tabs[window.current_tab] IN
    IF tab.current_session = NoSession
    THEN Handled(handle_error(Line("No current session", NONE), 3), <<>>,
                 <<"current_terminal_window", "current_tab", "current_session">>)
    ELSE Returned(<<tab.current_session>>, <<>>,
                  <<"current_terminal_window", "current_tab", "current_session">>)

FONT_SIZE == <<"f", "o", "n", "t", "-", "s", "i", "z", "e">>
FONT_FAMILY == <<"f", "o", "n", "t", "-", "f", "a", "m", "i", "l", "y">>
BG_COLOR == <<"b", "g", "-", "c", "o", "l", "o", "r">>
FG_COLOR == <<"f", "g", "-", "c", "o", "l", "o", "r">>
TRANSPARENCY == <<"t", "r", "a", "n", "s", "p", "a", "r", "e", "n", "c", "y">>
BLUR == <<"b", "l", "u", "r">>
CURSOR_COLOR == <<"c", "u", "r", "s", "o", "r", "-", "c", "o", "l", "o", "r">>
SELECTION_COLOR == <<"s", "e", "l", "e", "c", "t", "i", "o", "n", "-", "c", "o", "l", "o", "r">>
BADGE_TEXT == <<"b", "a", "d", "g", "e", "-", "t", "e", "x", "t">>

\* The setter awaited with an argument, or what stands in its place.
Setter(request, argument) == [kind |-> "call", request |-> request, argument |-> argument]
SetterRaises == [kind |-> "raise", request |-> "", argument |-> <<>>]
SetterUnknown == [kind |-> "unknown", request |-> "", argument |-> <<>>]

\* A setter whose argument is the value of parsed, no setter when parsed raised.
SetterOf(request, parsed) ==
    IF parsed.raised THEN SetterRaises ELSE Setter(request, parsed.value)

\* The if/elif chain of set_property, up to its await.
property_setter(property_name, value, normal_font) ==
    IF property_name = FONT_SIZE
    THEN Setter("async_set_normal_font",
                _parse_font_string(normal_font).family \o <<" ">> \o value)
    ELSE IF property_name = FONT_FAMILY
    THEN Setter("async_set_normal_font",
                value \o <<" ">> \o _parse_font_string(normal_font).size)
    ELSE IF property_name = BG_COLOR
    THEN SetterOf("async_set_background_color", _parse_color(value))
    ELSE IF property_name = FG_COLOR
    THEN SetterOf("async_set_foreground_color", _parse_color(value))
    ELSE IF property_name = TRANSPARENCY
    THEN SetterOf("async_set_transparency", float(value))
    ELSE IF property_name = BLUR
    THEN Setter("async_set_blur", lower(value) = <<"t", "r", "u", "e">>)
    ELSE IF property_name = CURSOR_COLOR
    THEN SetterOf("async_set_cursor_color", _parse_color(value))
    ELSE IF property_name = SELECTION_COLOR
    THEN SetterOf("async_set_selection_color", _parse_color(value))
    ELSE IF property_name = BADGE_TEXT
    THEN Setter("async_set_badge_text", value)
    ELSE SetterUnknown

\* The requests that set a property of a profile.
PropertySetters ==
    {"async_set_normal_font", "async_set_background_color",
     "async_set_foreground_color", "async_set_transparency", "async_set_blur",
     "async_set_cursor_color", "async_set_selection_color", "async_set_badge_text"}

\* What `profile show` prints without --json.  Of the full profile the name
\* and the font are modelled; its badge text is empty.
ShowLines(name, normal_font) ==
    LET font == _parse_font_string(normal_font) IN
    << Line("[bold]Profile: {full_profile.name}[/bold]", name),
       Line("GUID: {full_profile.guid}", NONE),
       Line("Font: {font_family} {font_size}pt", font.family \o <<" ">> \o font.size),
       Line("Background: {full_profile.background_color}", NONE),
       Line("Foreground: {full_profile.foreground_color}", NONE),
       Line("Transparency: {full_profile.transparency}", NONE),
       Line("Blur: {full_profile.blur}", NONE),
       Line("Cursor Color: {full_profile.cursor_color}", NONE),
       Line("Selection Color: {full_profile.selection_color}", NONE) >>

\* show, apply and set_property begin alike: profiles = await async_query(connection)
ProfileStart ==
    /\ cmd \in {"profile show", "profile apply", "profile set"}
    /\ pc = "start"
    /\ Continue(<<>>, PROFILES_QUERY)
    /\ UNCHANGED <<given, event, unresolved, loopless>>

\* show: from the profiles to the await of the full profile
ShowOnProfiles ==
    /\ cmd = "profile show"
    /\ Awaited(PROFILES_QUERY)
    /\ IF FindProfile(event.value, argv.name) = 0
       THEN Exits(ProfileNotFound(argv.name))
       ELSE Continue(<<>>, GET_FULL_PROFILE)
    /\ UNCHANGED <<given, event, unresolved, loopless>>

\* show: the full profile is printed
ShowOnFullProfile ==
    /\ cmd = "profile show"
    /\ Awaited(GET_FULL_PROFILE)
    /\ Returns(IF argv.as_json
               THEN <<Line("{json.dumps(profile_data, indent=2)}", argv.name)>>
               ELSE ShowLines(argv.name, event.value))
    /\ UNCHANGED <<given, event, unresolved, loopless>>

\* apply: from the profiles to the await of async_set_profile
ApplyOnProfiles ==
    /\ cmd = "profile apply"
    /\ Awaited(PROFILES_QUERY)
    /\ IF FindProfile(event.value, argv.name) = 0
       THEN /\ Exits(ProfileNotFound(argv.name))
            /\ UNCHANGED unresolved
       ELSE LET r == apply_target(app, session_id) IN
            /\ by_id_calls' = r.by_id_calls
            /\ active_reads' = r.active_reads
            /\ IF r.outcome = "exit"
               THEN /\ Exits(r)
                    /\ UNCHANGED target_session
               ELSE /\ target_session' = r.sessions[1]
                    /\ Continue(<<>>, SET_PROFILE)
    /\ UNCHANGED <<given, event, loopless>>

\* apply: the profile is applied
ApplyOnSetProfile ==
    /\ cmd = "profile apply"
    /\ Awaited(SET_PROFILE)
    /\ Returns(<<Line("Applied profile '{name}' to session", argv.name)>>)
    /\ UNCHANGED <<given, event, unresolved, loopless>>

\* set_property: from the profiles to the await of the full profile
SetOnProfiles ==
    /\ cmd = "profile set"
    /\ Awaited(PROFILES_QUERY)
    /\ IF FindProfile(event.value, argv.name) = 0
       THEN Exits(ProfileNotFound(argv.name))
       ELSE Continue(<<>>, GET_FULL_PROFILE)
    /\ UNCHANGED <<given, event, unresolved, loopless>>

\* set_property: from the full profile to the await of the property's setter
SetOnFullProfile ==
    /\ cmd = "profile set"
    /\ Awaited(GET_FULL_PROFILE)
    /\ LET setter == property_setter(argv.property_name, argv.value, event.value) IN
       IF setter.kind = "call" THEN Continue(<<>>, setter.request)
       ELSE IF setter.kind = "raise"
       THEN Exits(handle_error(Line("Failed to set property: {e}", NONE), 4))
       ELSE Exits(handle_error(Line("Unknown property: {property_name}",
                                    argv.property_name), 4))
    /\ UNCHANGED <<given, event, unresolved, loopless>>

\* set_property: the setter has answered, or has raised
SetOnSetter ==
    /\ cmd = "profile set"
    /\ \E request \in PropertySetters : Awaited(request)
    /\ IF event.kind = "raised"
       THEN Exits(handle_error(Line("Failed to set property: {e}", NONE), 4))
       ELSE Returns(<<Line("Set {property_name} = {value} for profile '{name}'",
                           Join(<<argv.property_name, argv.value, argv.name>>,
                                <<"|">>))>>)
    /\ UNCHANGED <<given, event, unresolved, loopless>>

\* ------------------------------------------------------------ monitor output, keystroke, variable, prompt

GET_SCREEN_STREAMER == "get_screen_streamer"
STREAMER_GET == "ScreenStreamer.async_get"
GET_SCREEN_CONTENTS == "async_get_screen_contents"
KEYSTROKE_MONITOR == "KeystrokeMonitor"
KEYSTROKE_GET == "KeystrokeMonitor.async_get"
GET_VARIABLE == "async_get_variable"
VARIABLE_MONITOR == "VariableMonitor"
VARIABLE_GET == "VariableMonitor.async_get"
SHELL_INTEGRATION == "async_get_variable(user.shell_integration_installed)"
PROMPT_MONITOR == "PromptMonitor"
PROMPT_GET == "PromptMonitor.async_get"
IS_ACTIVE == "async_get_variable(session.isActive)"
SESSION_NAME == "async_get_variable(session.name)"
SLEEP == "asyncio.sleep"

\* The text that stands for session.session_id of a session.
SessionIdOf(session) ==
    <<"w", ToString(session[1]), "t", ToString(session[2]), "p", ToString(session[3])>>

\* `if pattern: regex = re.compile(pattern)`: None without --pattern and for
\* an empty pattern.
Compiled(pattern) == IF pattern # NONE /\ pattern # <<>> THEN pattern ELSE NONE

InvalidPattern == handle_error(Line("Invalid regex pattern: {e}", NONE), 4)

\* click.echo(ln) for each line
EchoEach(lines) == [i \in 1..Len(lines) |-> Line("{ln}", lines[i])]

\* A variant of MatchingLines that keeps the lines the regex matches from
\* their first character on, as regex.match does.
MatchingLinesFromStart(regex, text_lines) ==
    SelectSeq(text_lines, LAMBDA ln : MatchHere(regex, 1, ln, 1))

\* [ln for ln in text_lines if regex.search(ln)]
MatchingLines(regex, text_lines) ==
    SelectSeq(text_lines, LAMBDA ln : regex_search(regex, ln))

\* What one screen update prints under --follow.
FollowLines(regex, text_lines) ==
    LET text == Join(text_lines, <<"\n">>) IN
    IF regex # NONE THEN EchoEach(MatchingLines(regex, text_lines))
    ELSE IF strip(text) # <<>> THEN <<Line("{text}", text)>>
    ELSE <<>>

\* What the screen contents print without --follow.
ContentsLines(regex, text_lines) ==
    IF regex # NONE THEN EchoEach(MatchingLines(regex, text_lines))
    ELSE <<Line("{text}", Join(text_lines, <<"\n">>))>>

\* What one keystroke prints.
KeystrokeLines(regex, key_str) ==
    IF regex # NONE
    THEN IF regex_search(regex, key_str)
         THEN <<Line("Keystroke: {key_str}", key_str)>>
         ELSE <<>>
    ELSE <<Line("Keystroke: {key_str}", key_str)>>

\* What one notification of the prompt monitor prints.
PromptLines(mode, value) ==
    IF mode = "PROMPT" THEN <<Line("New prompt detected", NONE)>>
    ELSE IF mode = "COMMAND_START" THEN <<Line("Command started: {value}", value)>>
    ELSE IF mode = "COMMAND_END"
    THEN <<Line("Command finished (exit status: {value})", value)>>
    ELSE <<>>

\* A variant of MonitoringStopped that prints nothing.
MonitoringStoppedSilently(out) == out

\* except KeyboardInterrupt: click.echo("\nMonitoring stopped")
MonitoringStopped(out) == Append(out, Line("\nMonitoring stopped", NONE))

\* A variant of Loop that leaves the loop after one more pass.
LoopOnce(lines, request) ==
    /\ iterations' = iterations + 1
    /\ Returns(lines)

\* `while True`: the body has printed the lines and is entered again, up to
\* its await.
Loop(lines, request) ==
    /\ iterations' = iterations + 1
    /\ Continue(lines, request)

\* sessions = await get_target_sessions(app, session); target_session = sessions[0].
\* target_session is not bound when the resolver exits or the list is empty.
Resolve(r) ==
    /\ by_id_calls' = r.by_id_calls
    /\ active_reads' = r.active_reads
    /\ target_session' = IF r.outcome = "exit" \/ r.sessions = <<>> THEN NoSession
                         ELSE r.sessions[1]

\* A variant of OutputStart that compiles the pattern before it resolves the
\* target.
OutputStartCompilesFirst ==
    \E r \in {get_target_sessions(app, session_id, FALSE)} :
    /\ cmd = "monitor output"
    /\ pc = "start"
    /\ IF Compiled(argv.pattern) # NONE /\ re_error(argv.pattern)
       THEN /\ Exits(InvalidPattern)
            /\ UNCHANGED unresolved
       ELSE /\ Resolve(r)
            /\ IF r.outcome = "exit" THEN Exits(r)
               ELSE IF r.sessions = <<>> THEN RaisesIndexError
               ELSE IF argv.follow
               THEN Continue(<<Line("Monitoring output from session {target_session.session_id}...",
                                    SessionIdOf(r.sessions[1])),
                               Line("Press Ctrl+C to stop", NONE)>>,
                             GET_SCREEN_STREAMER)
               ELSE Continue(<<>>, GET_SCREEN_CONTENTS)
    /\ UNCHANGED <<given, event, loopless>>

\* output: up to its first await
OutputStart ==
    \E r \in {get_target_sessions(app, session_id, FALSE)} :
    /\ cmd = "monitor output"
    /\ pc = "start"
    /\ Resolve(r)
    /\ IF r.outcome = "exit" THEN Exits(r)
       ELSE IF r.sessions = <<>> THEN RaisesIndexError
       ELSE IF Compiled(argv.pattern) # NONE /\ re_error(argv.pattern)
       THEN Exits(InvalidPattern)
       ELSE IF argv.follow
       THEN Continue(<<Line("Monitoring output from session {target_session.session_id}...",
                            SessionIdOf(r.sessions[1])),
                       Line("Press Ctrl+C to stop", NONE)>>,
                     GET_SCREEN_STREAMER)
       ELSE Continue(<<>>, GET_SCREEN_CONTENTS)
    /\ UNCHANGED <<given, event, loopless>>

\* output --follow: an update of the screen
OutputOnUpdate ==
    /\ cmd = "monitor output"
    /\ Awaited(STREAMER_GET)
    /\ Loop(IF event.kind = "none" THEN <<>>
            ELSE FollowLines(Compiled(argv.pattern), event.value),
            STREAMER_GET)
    /\ UNCHANGED <<given, event, unresolved, interrupted, session_activity, cursor>>

\* output without --follow: the contents of the screen
OutputOnContents ==
    /\ cmd = "monitor output"
    /\ Awaited(GET_SCREEN_CONTENTS)
    /\ Returns(ContentsLines(Compiled(argv.pattern), event.value))
    /\ UNCHANGED <<given, event, unresolved, loopless>>

\* keystroke: up to its first await
KeystrokeStart ==
    \E r \in {get_target_sessions(app, session_id, FALSE)} :
    /\ cmd = "monitor keystroke"
    /\ pc = "start"
    /\ Resolve(r)
    /\ IF r.outcome = "exit" THEN Exits(r)
       ELSE IF r.sessions = <<>> THEN RaisesIndexError
       ELSE IF Compiled(argv.pattern) # NONE /\ re_error(argv.pattern)
       THEN Exits(InvalidPattern)
       ELSE Continue(<<Line("Monitoring keystrokes in session {target_session.session_id}...",
                            SessionIdOf(r.sessions[1])),
                       Line("Press Ctrl+C to stop", NONE)>>,
                     KEYSTROKE_MONITOR)
    /\ UNCHANGED <<given, event, loopless>>

\* keystroke: a keystroke
KeystrokeOnKey ==
    /\ cmd = "monitor keystroke"
    /\ Awaited(KEYSTROKE_GET)
    /\ Loop(KeystrokeLines(Compiled(argv.pattern), event.value), KEYSTROKE_GET)
    /\ UNCHANGED <<given, event, unresolved, interrupted, session_activity, cursor>>

\* variable: up to its first await
VariableStart ==
    \E r \in {get_target_sessions(app, session_id, FALSE)} :
    /\ cmd = "monitor variable"
    /\ pc = "start"
    /\ IF argv.app_level
       THEN /\ Continue(<<Line("Monitoring app variable '{variable_name}'...", NONE)>>,
                        GET_VARIABLE)
            /\ UNCHANGED unresolved
       ELSE /\ Resolve(r)
            /\ IF r.outcome = "exit" THEN Exits(r)
               ELSE IF r.sessions = <<>> THEN RaisesIndexError
               ELSE Continue(<<Line("Monitoring session variable '{variable_name}'...",
                                    NONE)>>,
                             GET_VARIABLE)
    /\ UNCHANGED <<given, event, loopless>>

\* str(value) of a variable's value
ValueText(answer) == IF answer.kind = "none" THEN <<"N", "o", "n", "e">> ELSE answer.value

\* variable: the initial value
VariableOnInitial ==
    /\ cmd = "monitor variable"
    /\ Awaited(GET_VARIABLE)
    /\ Continue(<<Line("Current value: {initial_value}", ValueText(event)),
                  Line("Press Ctrl+C to stop", NONE)>>,
                VARIABLE_MONITOR)
    /\ UNCHANGED <<given, event, unresolved, loopless>>

\* variable: a change of the value
VariableOnChange ==
    /\ cmd = "monitor variable"
    /\ Awaited(VARIABLE_GET)
    /\ Loop(<<Line("Changed to: {new_value}", ValueText(event))>>, VARIABLE_GET)
    /\ UNCHANGED <<given, event, unresolved, interrupted, session_activity, cursor>>

\* prompt: up to its first await
PromptStart ==
    \E r \in {get_target_sessions(app, session_id, FALSE)} :
    /\ cmd = "monitor prompt"
    /\ pc = "start"
    /\ Resolve(r)
    /\ IF r.outcome = "exit" THEN Exits(r)
       ELSE IF r.sessions = <<>> THEN RaisesIndexError
       ELSE Continue(<<>>, SHELL_INTEGRATION)
    /\ UNCHANGED <<given, event, loopless>>

\* prompt: whether the shell integration is installed
PromptOnShellIntegration ==
    /\ cmd = "monitor prompt"
    /\ Awaited(SHELL_INTEGRATION)
    /\ Continue((IF event.kind = "none" \/ event.value = <<>>
                 THEN <<Line("Warning: Shell integration may not be installed.", NONE),
                        Line("Install it from: iTerm2 > Install Shell Integration", NONE)>>
                 ELSE <<>>)
                \o <<Line("Monitoring prompts in session {target_session.session_id}...",
                          SessionIdOf(target_session)),
                     Line("Press Ctrl+C to stop", NONE)>>,
                PROMPT_MONITOR)
    /\ UNCHANGED <<given, event, unresolved, loopless>>

\* prompt: a notification
PromptOnNotification ==
    /\ cmd = "monitor prompt"
    /\ Awaited(PROMPT_GET)
    /\ Loop(PromptLines(event.value.mode, event.value.value), PROMPT_GET)
    /\ UNCHANGED <<given, event, unresolved, interrupted, session_activity, cursor>>

\* The request that opens a monitor, and the await inside its loop.
LoopGet(opener) ==
    IF opener = GET_SCREEN_STREAMER THEN STREAMER_GET
    ELSE IF opener = KEYSTROKE_MONITOR THEN KEYSTROKE_GET
    ELSE IF opener = VARIABLE_MONITOR THEN VARIABLE_GET
    ELSE PROMPT_GET

\* `async with ... as mon: while True: ... await mon.async_get()`: the monitor
\* is open and the loop is entered.
EnterLoop ==
    /\ \E opener \in {GET_SCREEN_STREAMER, KEYSTROKE_MONITOR, VARIABLE_MONITOR,
                      PROMPT_MONITOR} :
        /\ Awaited(opener)
        /\ Continue(<<>>, LoopGet(opener))
    /\ iterations' = 1
    /\ UNCHANGED <<given, event, unresolved, interrupted, session_activity, cursor>>

\* ------------------------------------------------------------ monitor activity

\* current_session of lines 217-222
CurrentSession(a) ==
    IF a.current_terminal_window = 0 THEN NoSession
    ELSE LET current_window == a.windows[a.current_terminal_window] IN
    IF current_window.current_tab = 0 THEN NoSession
    ELSE current_window.tabs[current_window.current_tab].current_session

\* The sessions in the order of the three for loops.
LoopSessions(a) == ExtendWindows(<<>>, a.windows)

\* `if not all_sessions and session != current_session: continue`
Watched(a, all, session) == all \/ session = CurrentSession(a)

\* The first session at or after position `from` that is not skipped, 0 when
\* the for loops end before one.
NextWatched(a, all, from) ==
    LET positions == { k \in from..Len(LoopSessions(a)) :
                          Watched(a, all, LoopSessions(a)[k]) }
    IN  IF positions = {} THEN 0
        ELSE CHOOSE k \in positions : \A j \in positions : k <= j

\* The for loops go on from position `from`: to the next await, or to the
\* sleep that ends the pass.
Advance(from, lines) ==
    LET k == NextWatched(app, all_sessions, from) IN
    /\ cursor' = k
    /\ IF k # 0 THEN Continue(lines, IS_ACTIVE)
       ELSE /\ pc' = SLEEP
            /\ stdout' = stdout \o lines
            /\ UNCHANGED <<pending, host_calls, outcome, exit_code, stderr>>

\* A variant of Put that keeps the item a key already has.
PutIfAbsent(dict, key, item) ==
    [k \in (DOMAIN dict) \cup {key} |-> IF k \in DOMAIN dict THEN dict[k] ELSE item]

\* session_activity[session_id] = is_active
Put(dict, key, item) ==
    [k \in (DOMAIN dict) \cup {key} |-> IF k = key THEN item ELSE dict[k]]

\* activity: up to its first await
ActivityStart ==
    /\ cmd = "monitor activity"
    /\ pc = "start"
    /\ session_activity' = <<>>
    /\ iterations' = 1
    /\ Advance(1, <<Line(IF all_sessions THEN "Monitoring activity in all sessions..."
                         ELSE "Monitoring activity in current session...", NONE),
                    Line("Press Ctrl+C to stop", NONE)>>)
    /\ UNCHANGED <<given, event, unresolved, interrupted>>

\* activity: the activity indicator of the session at the cursor
ActivityOnIsActive ==
    LET session == LoopSessions(app)[cursor]
        is_active == event.value
    IN  /\ cmd = "monitor activity"
        /\ Awaited(IS_ACTIVE)
        /\ IF session \notin DOMAIN session_activity
           THEN /\ session_activity' = Put(session_activity, session, is_active)
                /\ Advance(cursor + 1, <<>>)
           ELSE IF session_activity[session] # is_active
           THEN /\ session_activity' = Put(session_activity, session, is_active)
                /\ Continue(<<>>, SESSION_NAME)
                /\ UNCHANGED cursor
           ELSE /\ UNCHANGED session_activity
                /\ Advance(cursor + 1, <<>>)
        /\ UNCHANGED <<given, event, unresolved, interrupted, iterations>>

\* activity: the name of the session whose activity changed
ActivityOnName ==
    LET session == LoopSessions(app)[cursor]
        name == IF event.kind = "value" /\ event.value # <<>> THEN event.value
                ELSE SessionIdOf(session)
    IN  /\ cmd = "monitor activity"
        /\ Awaited(SESSION_NAME)
        /\ Advance(cursor + 1,
                   <<Line(IF session_activity[session] THEN "Session active: {name}"
                          ELSE "Session idle: {name}", name)>>)
        /\ UNCHANGED <<given, event, unresolved, interrupted, iterations,
                       session_activity>>

\* activity: `await asyncio.sleep(0.5)` is over and the next pass begins
ActivityWake ==
    /\ cmd = "monitor activity"
    /\ pc = SLEEP
    /\ iterations < MaxIterations
    /\ iterations' = iterations + 1
    /\ Advance(1, <<>>)
    /\ UNCHANGED <<given, event, unresolved, interrupted, session_activity>>

\* While `monitor activity` waits, the user makes another session of the
\* current tab the current one, or leaves the tab without one: the handler
\* reads the current_* attributes anew for every session of its loops.
HostSwitches ==
    /\ cmd = "monitor activity"
    /\ pc \in {IS_ACTIVE, SESSION_NAME, SLEEP}
    /\ app.current_terminal_window # 0
    /\ LET w == app.current_terminal_window
           t == app.windows[w].current_tab
       IN  /\ t # 0
           /\ \E k \in 0..Len(app.windows[w].tabs[t].sessions) :
                LET s == IF k = 0 THEN NoSession ELSE app.windows[w].tabs[t].sessions[k]
                IN  /\ s # app.windows[w].tabs[t].current_session
                    /\ app' = [app EXCEPT !.windows[w].tabs[t].current_session = s]
    /\ UNCHANGED <<op, session_id, all_sessions, ret_id, ret_session, ret_list, cmd,
                   argv, profiles, connection, broadcast_domains, unresolved, outcome, exit_code, stderr, pc, pending,
                   host_calls, stdout, event, loopless>>

\* ------------------------------------------------------------ app activate, quit, broadcast add

ACTIVATE == "app.async_activate"
SELECT_MENU_ITEM == "iterm2.MainMenu.async_select_menu_item"
SET_BROADCAST_DOMAINS == "iterm2.async_set_broadcast_domains"

\* What a handler that changes nothing of the host's broadcast domains and
\* runs no loop leaves alone.
plain == <<given, event, unresolved, loopless>>

\* activate: up to its await
ActivateStart ==
    /\ cmd = "app activate"
    /\ pc = "start"
    /\ Continue(<<>>, ACTIVATE)
    /\ UNCHANGED plain

\* activate: the host has activated
ActivateOnActivated ==
    /\ cmd = "app activate"
    /\ Awaited(ACTIVATE)
    /\ Returns(<<Line("iTerm2 activated", NONE)>>)
    /\ UNCHANGED plain

\* click.confirm("Quit iTerm2?", abort=True) when the user declines: click
\* raises Abort, prints "Aborted!" and ends the process with code 1.
Aborts ==
    /\ pc' = "done"
    /\ outcome' = "aborted"
    /\ exit_code' = 1
    /\ stdout' = stdout \o <<Line("Quit iTerm2? [y/N]: ", NONE)>>
    /\ stderr' = stderr \o <<Line("Aborted!", NONE)>>
    /\ UNCHANGED <<pending, host_calls>>

\* A variant of quit_app whose confirmation aborts nothing.
QuitStartUnconfirmed ==
    /\ cmd = "app quit"
    /\ pc = "start"
    /\ Continue(IF argv.force THEN <<>> ELSE <<Line("Quit iTerm2? [y/N]: ", NONE)>>,
                SELECT_MENU_ITEM)
    /\ UNCHANGED plain

\* quit: up to its await
QuitStart ==
    /\ cmd = "app quit"
    /\ pc = "start"
    /\ IF argv.force THEN Continue(<<>>, SELECT_MENU_ITEM)
       ELSE IF argv.confirmed
       THEN Continue(<<Line("Quit iTerm2? [y/N]: ", NONE)>>, SELECT_MENU_ITEM)
       ELSE Aborts
    /\ UNCHANGED plain

\* quit: the menu item was selected
QuitOnSelected ==
    /\ cmd = "app quit"
    /\ Awaited(SELECT_MENU_ITEM)
    /\ Returns(<<Line("iTerm2 quit command sent", NONE)>>)
    /\ UNCHANGED plain

\* A variant of FirstMissing that takes every id for found.
NoneMissing(a, session_ids) == 0

\* The position of the first id of session_ids the host's accessor finds no
\* session for, 0 when it finds one for each.
FirstMissing(a, session_ids) ==
    LET positions == { i \in 1..Len(session_ids) :
                          HostLookup(a, session_ids[i]) = NoSession }
    IN  IF positions = {} THEN 0
        ELSE CHOOSE i \in positions : \A j \in positions : i <= j

\* broadcast add: up to its await
BroadcastAddStart ==
    LET session_ids == argv.session_ids
        k == FirstMissing(app, session_ids)
        sessions == [i \in 1..Len(session_ids) |-> HostLookup(app, session_ids[i])]
    IN  /\ cmd = "app broadcast add"
        /\ pc = "start"
        /\ by_id_calls' = IF k = 0 THEN session_ids ELSE SubSeq(session_ids, 1, k)
        /\ IF k # 0
           THEN /\ Exits(handle_error(Line("Session '{sid}' not found", session_ids[k]), 3))
                /\ UNCHANGED broadcast_domains
           ELSE /\ Continue(<<>>, SET_BROADCAST_DOMAINS)
                /\ broadcast_domains' = <<sessions>>
        /\ UNCHANGED <<app, op, session_id, all_sessions, ret_id, ret_session, ret_list,
                       cmd, argv, profiles, connection, active_reads, target_session,
                       event, loopless>>

\* broadcast add: the host has set the domains
BroadcastAddOnSet ==
    /\ cmd = "app broadcast add"
    /\ Awaited(SET_BROADCAST_DOMAINS)
    /\ Returns(<<Line("Created broadcast group with {len(sessions)} sessions",
                      <<ToString(Len(broadcast_domains[1]))>>)>>)
    /\ UNCHANGED plain

\* ------------------------------------------------------------ window focus, fullscreen

WINDOW_ACTIVATE == "window.async_activate"
GET_FULLSCREEN == "window.async_get_fullscreen"
SET_FULLSCREEN(value) ==
    IF value THEN "window.async_set_fullscreen(True)"
    ELSE "window.async_set_fullscreen(False)"

\* The text that stands for window.window_id of the w-th window.
WindowIdOf(w) == <<"p", "t", "y", "-", ToString(w)>>

\* A variant of FindWindow that takes the first window whatever its id is.
FindFirstWindow(a, window_id) == IF a.windows = <<>> THEN 0 ELSE 1

\* The position of the window of the host whose id is window_id, 0 when the
\* host has none.
FindWindow(a, window_id) ==
    LET positions == { w \in 1..Len(a.windows) : WindowIdOf(w) = window_id }
    IN  IF positions = {} THEN 0
        ELSE CHOOSE w \in positions : \A v \in positions : w <= v

\* focus: up to its await
FocusStart ==
    LET w == FindWindow(app, argv.window_id) IN
    /\ cmd = "window focus"
    /\ pc = "start"
    /\ cursor' = w
    /\ IF w = 0
       THEN Exits(handle_error(Line("Window '{window_id}' not found", argv.window_id), 3))
       ELSE Continue(<<>>, WINDOW_ACTIVATE)
    /\ UNCHANGED <<given, event, unresolved, iterations, interrupted, session_activity>>

\* focus: the host has activated the window
FocusOnActivated ==
    /\ cmd = "window focus"
    /\ Awaited(WINDOW_ACTIVATE)
    /\ Returns(<<Line("Focused window: {window_id}", argv.window_id)>>)
    /\ UNCHANGED plain

ON == <<"o", "n">>
OFF == <<"o", "f", "f">>
TOGGLE == <<"t", "o", "g", "g", "l", "e">>

\* A variant of FullscreenRequest that sets the state whatever it is.
FullscreenRequestAlways(mode, current) ==
    SET_FULLSCREEN(IF mode = TOGGLE THEN ~current ELSE mode = ON)

\* The set call `window fullscreen MODE` makes for a window whose fullscreen
\* state is `current`, "none" when it makes none.
FullscreenRequest(mode, current) ==
    IF mode = TOGGLE THEN SET_FULLSCREEN(~current)
    ELSE IF (mode = ON) # current THEN SET_FULLSCREEN(mode = ON)
    ELSE "none"

\* fullscreen: up to its first await, on the current window
FullscreenStart ==
    /\ cmd = "window fullscreen"
    /\ pc = "start"
    /\ cursor' = app.current_terminal_window
    /\ active_reads' = <<"current_terminal_window">>
    /\ Continue(<<>>, GET_FULLSCREEN)
    /\ UNCHANGED <<given, event, by_id_calls, target_session, iterations, interrupted,
                   session_activity>>

\* fullscreen: the window's fullscreen state
FullscreenOnGet ==
    LET request == FullscreenRequest(argv.mode, event.value) IN
    /\ cmd = "window fullscreen"
    /\ Awaited(GET_FULLSCREEN)
    /\ IF request = "none"
       THEN Returns(<<Line(IF event.value THEN "Fullscreen already enabled"
                           ELSE "Fullscreen already disabled", NONE)>>)
       ELSE Continue(<<>>, request)
    /\ UNCHANGED plain

\* fullscreen: the host has set the state
FullscreenOnSet ==
    /\ cmd = "window fullscreen"
    /\ \E value \in BOOLEAN :
        /\ Awaited(SET_FULLSCREEN(value))
        /\ Returns(<<Line(IF value THEN "Fullscreen enabled" ELSE "Fullscreen disabled",
                          NONE)>>)
    /\ UNCHANGED plain

\* ------------------------------------------------------------ run_command

\* A variant of RunCommandFails that calls the handler without a connection.
RunCommandCallsHandler ==
    /\ pc = "connect"
    /\ connection = "failed"
    /\ pc' = "start"
    /\ UNCHANGED <<given, event, unresolved, loopless, outcome, exit_code, stderr,
                   pending, host_calls, stdout>>

\* run_command of it2.core.connection without the cookie and without a
\* connection: the handler is not called.
RunCommandFails ==
    /\ pc = "connect"
    /\ connection = "failed"
    /\ Exits(handle_error(Line("Not running inside iTerm2", NONE), 2))
    /\ UNCHANGED plain

\* ------------------------------------------------------------ the interrupt and the host

\* Where a handler stands inside its `try: ... except KeyboardInterrupt`.
TryLabels(command) ==
    IF command = "monitor output" THEN {GET_SCREEN_STREAMER, STREAMER_GET}
    ELSE IF command = "monitor keystroke" THEN {KEYSTROKE_MONITOR, KEYSTROKE_GET}
    ELSE IF command = "monitor variable" THEN {VARIABLE_MONITOR, VARIABLE_GET}
    ELSE IF command = "monitor prompt" THEN {PROMPT_MONITOR, PROMPT_GET}
    ELSE IF command = "monitor activity" THEN {IS_ACTIVE, SESSION_NAME, SLEEP}
    ELSE {}

\* KeyboardInterrupt is raised inside the try, while the handler waits for an
\* answer or before it has handled the one that arrived; the request it
\* waited for is given up.
KeyboardInterrupt ==
    /\ pc \in TryLabels(cmd)
    /\ interrupted' = TRUE
    /\ pending' = <<>>
    /\ pc' = "done"
    /\ outcome' = "returned"
    /\ exit_code' = 0
    /\ stdout' = MonitoringStopped(stdout)
    /\ UNCHANGED <<given, event, unresolved, stderr, host_calls, iterations,
                   session_activity, cursor>>

DEV == <<"D", "e", "v">>
DEV_LOWER == <<"d", "e", "v">>
OPS == <<"O", "p", "s">>

\* The profiles of the host: none, the one asked for, the one asked for
\* behind another, and a name that differs from it in case only.
ProfileLists == {<<>>, <<DEV>>, <<OPS, DEV>>, <<DEV_LOWER, OPS>>}

\* normal_font of a full profile
FontSamples == {<<"M", "o", "n", "a", "c", "o", " ", "1", "2">>, <<"M", "e", "n", "l", "o">>}

L_OK == <<"o", "k">>
L_ER_FIRST == <<"E", "R", " ", "1">>
L_ER_LAST == <<"x", " ", "E", "R">>
L_BLANK == <<" ">>
L_EMPTY == <<>>

\* The lines of a screen.
ScreenSamples ==
    { <<L_OK>>, <<L_ER_FIRST, L_OK, L_ER_LAST>>, <<L_ER_LAST, L_ER_FIRST, L_ER_FIRST>>,
      <<L_BLANK, L_EMPTY>> }

\* keystroke.characters
KeystrokeSamples == {<<"k">>, <<"E", "R">>, <<"1">>, <<"\n">>}

\* --pattern: absent, empty, valid, and not a regular expression
ValidPatterns == {<<"E", "R">>, <<"^", "E", "R">>, <<"k", "$">>, <<".">>}
InvalidPatterns == {<<"[">>, <<"(">>, <<"*">>}
PatternSamples == {NONE, <<>>} \cup ValidPatterns \cup InvalidPatterns

\* The values of a variable.
VariableValues == {<<"x">>}

\* (mode, value) of the prompt monitor; OTHER is a mode the handler names not.
PromptNotifications ==
    { [mode |-> "PROMPT", value |-> <<>>],
      [mode |-> "COMMAND_START", value |-> <<"l", "s">>],
      [mode |-> "COMMAND_END", value |-> <<"0">>],
      [mode |-> "OTHER", value |-> <<>>] }

\* The awaits inside the monitoring loops.
LoopGets == {STREAMER_GET, KEYSTROKE_GET, VARIABLE_GET, PROMPT_GET}

\* What the host may answer to a request.
Answers(request) ==
    IF request = PROFILES_QUERY THEN {Answer(profiles)}
    ELSE IF request = GET_FULL_PROFILE THEN {Answer(font) : font \in FontSamples}
    ELSE IF request \in PropertySetters THEN {Answer(<<>>), AnswerRaised}
    ELSE IF request = STREAMER_GET
    THEN {AnswerNone} \cup {Answer(screen) : screen \in ScreenSamples}
    ELSE IF request = GET_SCREEN_CONTENTS
    THEN {Answer(screen) : screen \in ScreenSamples}
    ELSE IF request = KEYSTROKE_GET THEN {Answer(key) : key \in KeystrokeSamples}
    ELSE IF request \in {GET_VARIABLE, VARIABLE_GET}
    THEN {AnswerNone} \cup {Answer(v) : v \in VariableValues}
    ELSE IF request = SHELL_INTEGRATION THEN {AnswerNone, Answer(<<"1">>)}
    ELSE IF request = PROMPT_GET
    THEN {Answer(notification) : notification \in PromptNotifications}
    ELSE IF request = IS_ACTIVE THEN {Answer(TRUE), Answer(FALSE)}
    ELSE IF request = SESSION_NAME THEN {AnswerNone, Answer(<<"z", "s", "h">>)}
    ELSE IF request = GET_FULLSCREEN THEN {Answer(app.fullscreen)}
    ELSE {Answer(<<>>)}

\* The host answers the oldest request: the await of the handler completes.
\* A setter of a profile property may fail; a monitor hands over at most
\* MaxIterations events.
HostAnswers ==
    /\ pending # <<>>
    /\ Head(pending) \in LoopGets => iterations <= MaxIterations
    /\ \E answer \in Answers(Head(pending)) : event' = answer
    /\ pending' = Tail(pending)
    /\ UNCHANGED <<given, unresolved, outcome, exit_code, stderr, pc, host_calls,
                   stdout, loopless>>

\* ------------------------------------------------------------ an invocation

\* `profile set NAME PROPERTY VALUE`: the property and the value
PropertyValueSamples ==
    { <<FONT_SIZE, <<"1", "4">>>>, <<FONT_SIZE, <<"1", "3", ".", "5">>>>, <<FONT_SIZE, <<"a", "b", "c">>>>,
      <<FONT_FAMILY, <<"M", "e", "n", "l", "o">>>>,
      <<BG_COLOR, <<"#", "f", "f", "8", "8", "0", "0">>>>, <<BG_COLOR, <<"F", "F", "8", "8", "0", "0">>>>, <<BG_COLOR, <<"f", "f", "8", "8", "0">>>>,
      <<BG_COLOR, <<"#", "g", "g", "8", "8", "0", "0">>>>, <<BG_COLOR, <<"+", "f", "8", "8", "0", "0">>>>,
      <<FG_COLOR, <<"#", "c", "7", "c", "8", "c", "9">>>>, <<FG_COLOR, <<"r", "e", "d">>>>,
      <<CURSOR_COLOR, <<"#", "b", "b", "b", "b", "b", "b">>>>, <<CURSOR_COLOR, <<"#", "#", "b", "b", "b", "b", "b">>>>,
      <<SELECTION_COLOR, <<"1", "a", "0", "1", "3", "3">>>>, <<SELECTION_COLOR, <<"#", "1", "a", "0", "1", "3", "3", "f", "f">>>>,
      <<TRANSPARENCY, <<"0", ".", "5">>>>, <<TRANSPARENCY, <<"1">>>>, <<TRANSPARENCY, <<"h", "a", "l", "f">>>>,
      <<TRANSPARENCY, <<>>>>,
      <<BLUR, <<"T", "r", "u", "e">>>>, <<BLUR, <<"n", "o">>>>,
      <<BADGE_TEXT, <<"h", "i">>>>,
      <<<<"c", "o", "l", "o", "u", "r">>, <<"#", "f", "f", "8", "8", "0", "0">>>>, <<<<"F", "o", "n", "t", "-", "S", "i", "z", "e">>, <<"1", "4">>>> }

\* A host of one window with one tab of n sessions, the cs-th the current one.
OneTabHost(n, cs, table) ==
    [windows |-> <<MakeWindow(1, 1, n, FALSE, 1, cs)>>,
     current_terminal_window |-> 1, by_id |-> table]

\* The hosts of the stream monitors: no window, a tab without a session, and
\* one session.
StreamHosts ==
    {NoHost, OneTabHost(0, 0, <<>>), OneTabHost(1, 1, UUID_LOWER :> Session(1, 1, 1))}

\* The hosts of `monitor activity`: no window, and one tab of up to MaxPanes
\* sessions with any of them, or none, the current one.
ActivityHosts ==
    {NoHost} \cup {OneTabHost(n, cs, <<>>) : n \in 1..MaxPanes, cs \in 0..MaxPanes}

\* The hosts of `profile apply`: those of at most one window of at most one tab.
ApplyHosts ==
    {a \in Hosts : Len(a.windows) <= 1 /\ \A w \in 1..Len(a.windows) :
                                            Len(a.windows[w].tabs) <= 1}

\* The hosts of `app broadcast add`: one tab of two sessions, of which the
\* accessor knows none, the first, or both.
BroadcastHosts ==
    { OneTabHost(2, 1, table) :
        table \in { <<>>, UUID_LOWER :> Session(1, 1, 1),
                    (UUID_LOWER :> Session(1, 1, 1)) @@ (UUID_MIXED :> Session(1, 1, 2)) } }

\* session_ids of `app broadcast add`: one id or more (nargs=-1, required).
BroadcastIdLists ==
    LET ids == {UUID_LOWER, UUID_MIXED, NONEXISTENT_ID, ALIAS_COLON}
    IN  UNION { [1..n -> ids] : n \in 1..MaxPanes }

\* The hosts of the window commands: up to MaxWindows windows of one session
\* each, the first the current one, all in or all out of fullscreen.
WindowHosts ==
    { [windows |-> [w \in 1..n |-> MakeWindow(w, 1, 1, FALSE, 1, 1)],
       current_terminal_window |-> IF n = 0 THEN 0 ELSE 1,
       by_id |-> <<>>,
       fullscreen |-> fullscreen] :
        n \in 0..MaxWindows, fullscreen \in BOOLEAN }

NON_EXISTENT_WINDOW ==
    <<"n", "o", "n", "-", "e", "x", "i", "s", "t", "e", "n", "t", "-", "w", "i", "n",
      "d", "o", "w">>

\* --session of the stream monitors
MonitorSessionArgs == {NONE, ALL, UUID_LOWER, NONEXISTENT_ID}

\* No handler has run yet.
Starting ==
    /\ op = "idle"
    /\ ret_id = NONE
    /\ ret_session = NoSession
    /\ ret_list = <<>>
    /\ outcome = "none"
    /\ exit_code = 0
    /\ stderr = <<>>
    /\ by_id_calls = <<>>
    /\ active_reads = <<>>
    /\ pending = <<>>
    /\ host_calls = <<>>
    /\ stdout = <<>>
    /\ target_session = NoSession
    /\ event = AnswerNone
    /\ iterations = 0
    /\ interrupted = FALSE
    /\ session_activity = <<>>
    /\ cursor = 0

InitProfileShow ==
    /\ cmd = "profile show"
    /\ argv \in {[NoArgs EXCEPT !.name = DEV, !.as_json = j] : j \in BOOLEAN}
    /\ app = NoHost
    /\ profiles \in ProfileLists
    /\ session_id = NONE
    /\ all_sessions = FALSE

InitProfileApply ==
    /\ cmd = "profile apply"
    /\ argv = [NoArgs EXCEPT !.name = DEV]
    /\ app \in ApplyHosts
    /\ profiles \in ProfileLists
    /\ session_id \in SessionIdArgs
    /\ all_sessions = FALSE

InitProfileSet ==
    /\ cmd = "profile set"
    /\ argv \in {[NoArgs EXCEPT !.name = DEV, !.property_name = pv[1], !.value = pv[2]] :
                    pv \in PropertyValueSamples}
    /\ app = NoHost
    /\ profiles \in ProfileLists
    /\ session_id = NONE
    /\ all_sessions = FALSE

InitMonitorOutput ==
    /\ cmd = "monitor output"
    /\ argv \in {[NoArgs EXCEPT !.pattern = pattern, !.follow = follow] :
                    pattern \in PatternSamples, follow \in BOOLEAN}
    /\ app \in StreamHosts
    /\ profiles = <<>>
    /\ session_id \in MonitorSessionArgs
    /\ all_sessions = FALSE

InitMonitorKeystroke ==
    /\ cmd = "monitor keystroke"
    /\ argv \in {[NoArgs EXCEPT !.pattern = pattern] : pattern \in PatternSamples}
    /\ app \in StreamHosts
    /\ profiles = <<>>
    /\ session_id \in MonitorSessionArgs
    /\ all_sessions = FALSE

InitMonitorVariable ==
    /\ cmd = "monitor variable"
    /\ argv \in {[NoArgs EXCEPT !.app_level = app_level] : app_level \in BOOLEAN}
    /\ app \in StreamHosts
    /\ profiles = <<>>
    /\ session_id \in MonitorSessionArgs
    /\ all_sessions = FALSE

InitMonitorPrompt ==
    /\ cmd = "monitor prompt"
    /\ argv = NoArgs
    /\ app \in StreamHosts
    /\ profiles = <<>>
    /\ session_id \in MonitorSessionArgs
    /\ all_sessions = FALSE

InitMonitorActivity ==
    /\ cmd = "monitor activity"
    /\ argv = NoArgs
    /\ app \in ActivityHosts
    /\ profiles = <<>>
    /\ session_id = NONE
    /\ all_sessions \in BOOLEAN

InitAppActivate ==
    /\ cmd = "app activate"
    /\ argv = NoArgs
    /\ app = NoHost
    /\ profiles = <<>>
    /\ session_id = NONE
    /\ all_sessions = FALSE

\* `app quit [--force]`, and what the user answers when asked.
InitAppQuit ==
    /\ cmd = "app quit"
    /\ argv \in {[NoArgs EXCEPT !.force = force, !.confirmed = confirmed] :
                    force \in BOOLEAN, confirmed \in BOOLEAN}
    /\ app = NoHost
    /\ profiles = <<>>
    /\ session_id = NONE
    /\ all_sessions = FALSE

\* `app broadcast add ID...`, on a host that broadcasts to no session or to
\* the second one.
InitAppBroadcastAdd ==
    /\ cmd = "app broadcast add"
    /\ argv \in {[NoArgs EXCEPT !.session_ids = ids] : ids \in BroadcastIdLists}
    /\ app \in BroadcastHosts
    /\ profiles = <<>>
    /\ session_id = NONE
    /\ all_sessions = FALSE
    /\ broadcast_domains \in {<<>>, <<<<Session(1, 1, 2)>>>>}

\* `window focus WINDOW_ID`
InitWindowFocus ==
    /\ cmd = "window focus"
    /\ argv \in {[NoArgs EXCEPT !.window_id = id] :
                    id \in {WindowIdOf(w) : w \in 1..MaxWindows}
                           \cup {NON_EXISTENT_WINDOW, <<>>}}
    /\ app \in WindowHosts
    /\ profiles = <<>>
    /\ session_id = NONE
    /\ all_sessions = FALSE

\* `window fullscreen on|off|toggle`, with a current window
InitWindowFullscreen ==
    /\ cmd = "window fullscreen"
    /\ argv \in {[NoArgs EXCEPT !.mode = mode] : mode \in {ON, OFF, TOGGLE}}
    /\ app \in {a \in WindowHosts : a.current_terminal_window # 0}
    /\ profiles = <<>>
    /\ session_id = NONE
    /\ all_sessions = FALSE

\* A command line that sends the host a request when there is a connection,
\* met by no cookie and no connection.
InitNoConnection ==
    /\ pc = "connect"
    /\ connection = "failed"
    /\ broadcast_domains = <<>>
    /\ cmd \in {"app activate", "app quit", "app broadcast add", "window focus",
                "window fullscreen"}
    /\ argv = [NoArgs EXCEPT !.force = TRUE, !.session_ids = <<UUID_LOWER>>,
                             !.window_id = WindowIdOf(1), !.mode = TOGGLE]
    /\ app \in {a \in WindowHosts : a.current_terminal_window # 0}
    /\ profiles = <<>>
    /\ session_id = NONE
    /\ all_sessions = FALSE

\* One invocation of a subcommand: the command line and the host it meets.
InitCli ==
    /\ Starting
    /\ \/ /\ pc = "start"
          /\ connection = "established"
          /\ broadcast_domains = <<>>
          /\ \/ InitProfileShow
             \/ InitProfileApply
             \/ InitProfileSet
             \/ InitMonitorOutput
             \/ InitMonitorKeystroke
             \/ InitMonitorVariable
             \/ InitMonitorPrompt
             \/ InitMonitorActivity
             \/ InitAppActivate
             \/ InitAppQuit
             \/ InitWindowFocus
             \/ InitWindowFullscreen
       \/ /\ pc = "start"
          /\ connection = "established"
          /\ InitAppBroadcastAdd
       \/ InitNoConnection

NextCli ==
    \/ ProfileStart
    \/ ShowOnProfiles
    \/ ShowOnFullProfile
    \/ ApplyOnProfiles
    \/ ApplyOnSetProfile
    \/ SetOnProfiles
    \/ SetOnFullProfile
    \/ SetOnSetter
    \/ OutputStart
    \/ OutputOnUpdate
    \/ OutputOnContents
    \/ KeystrokeStart
    \/ KeystrokeOnKey
    \/ VariableStart
    \/ VariableOnInitial
    \/ VariableOnChange
    \/ PromptStart
    \/ PromptOnShellIntegration
    \/ PromptOnNotification
    \/ EnterLoop
    \/ ActivityStart
    \/ ActivityOnIsActive
    \/ ActivityOnName
    \/ ActivityWake
    \/ HostSwitches
    \/ ActivateStart
    \/ ActivateOnActivated
    \/ QuitStart
    \/ QuitOnSelected
    \/ BroadcastAddStart
    \/ BroadcastAddOnSet
    \/ FocusStart
    \/ FocusOnActivated
    \/ FullscreenStart
    \/ FullscreenOnGet
    \/ FullscreenOnSet
    \/ RunCommandFails
    \/ KeyboardInterrupt
    \/ HostAnswers

SpecCli == InitCli /\ [][NextCli]_vars

\* ------------------------------------------------------------ the claims

\* u is a UUID: 8-4-4-4-12 hexadecimal digits, hyphens between the groups.
IsUuidText(u) ==
    /\ Len(u) = 36
    /\ \A k \in 1..36 :
        IF k \in {9, 14, 19, 24} THEN u[k] = "-" ELSE u[k] \in HexChars

IsDigitRun(s, i, j) == i <= j /\ \A k \in i..j : s[k] \in Digits

\* p is w<digits>t<digits>p<digits>.
IsAliasPrefixText(p) ==
    /\ Len(p) >= 6
    /\ p[1] = "w"
    /\ \E i \in 3..Len(p), j \in 5..Len(p) :
        /\ i < j
        /\ p[i] = "t"
        /\ p[j] = "p"
        /\ IsDigitRun(p, 2, i - 1)
        /\ IsDigitRun(p, i + 1, j - 1)
        /\ IsDigitRun(p, j + 1, Len(p))

\* s is exactly w<digits>t<digits>p<digits>, a ':' or a '.', and a UUID.
IsAliasText(s) ==
    /\ Len(s) > 37
    /\ IsUuidText(SubSeq(s, Len(s) - 35, Len(s)))
    /\ s[Len(s) - 36] \in {":", "."}
    /\ IsAliasPrefixText(SubSeq(s, 1, Len(s) - 37))

UuidOfAlias(s) == SubSeq(s, Len(s) - 35, Len(s))

\* C1: normalize_session_id returns a UUID as it is, and returns the UUID part
\* of either alias form, character for character (so in the input's letter case).
C1_AliasGivesUuid ==
    op = "normalize" =>
        /\ IsUuidText(session_id) => ret_id = session_id
        /\ IsAliasText(session_id) => ret_id = UuidOfAlias(session_id)

\* A term-ID alias with runs of several digits and a mixed-case UUID.
C1_Witness ==
    /\ op = "normalize"
    /\ IsAliasText(session_id)
    /\ Len(session_id) > 37 + 6
    /\ session_id[Len(session_id) - 36] = "."
    /\ ret_id = UUID_MIXED

\* C2: normalize_session_id returns null, the keywords and every string that is
\* not exactly an alias unchanged.
C2_OthersUnchanged ==
    op = "normalize" /\ (session_id \in {NONE, ACTIVE, ALL} \/ ~IsAliasText(session_id))
        => ret_id = session_id

\* C3: normalize_session_id is idempotent.
C3_Idempotent ==
    op = "normalize" => normalize_session_id(ret_id) = ret_id

\* An input that normalization changed.
C3_Witness ==
    /\ op = "normalize"
    /\ ret_id # session_id
    /\ IsUuidText(ret_id)

\* C4: get_session_by_id returns null for null, else the host's session for the
\* normalized id, else (when normalizing changed the id) the host's answer for
\* the original id, else null; it returns in every case.
C4_LookupResult ==
    op = "get_session_by_id" =>
        LET n == normalize_session_id(session_id) IN
        /\ outcome = "returned"
        /\ exit_code = 0
        /\ stderr = <<>>
        /\ ret_session =
              IF session_id = NONE THEN NoSession
              ELSE IF HostLookup(app, n) # NoSession THEN HostLookup(app, n)
              ELSE IF n # session_id THEN HostLookup(app, session_id)
              ELSE NoSession

\* The host knows the session under the alias only and the retry finds it.
C4_Witness ==
    /\ op = "get_session_by_id"
    /\ normalize_session_id(session_id) # session_id
    /\ HostLookup(app, normalize_session_id(session_id)) = NoSession
    /\ ret_session # NoSession

\* Sessions of the first t tabs of a window, and of the first w windows.
RECURSIVE CountTabs(_, _)
CountTabs(window, t) ==
    IF t = 0 THEN 0 ELSE CountTabs(window, t - 1) + Len(window.tabs[t].sessions)

RECURSIVE CountWindows(_, _)
CountWindows(a, w) ==
    IF w = 0 THEN 0
    ELSE CountWindows(a, w - 1) + CountTabs(a.windows[w], Len(a.windows[w].tabs))

\* list holds the s-th session of the t-th tab of the w-th window right after
\* all sessions of earlier windows, of earlier tabs of that window and of
\* earlier places of that tab, and holds nothing else.
InHierarchyOrder(a, list) ==
    /\ Len(list) = CountWindows(a, Len(a.windows))
    /\ \A w \in 1..Len(a.windows) :
        \A t \in 1..Len(a.windows[w].tabs) :
            \A s \in 1..Len(a.windows[w].tabs[t].sessions) :
                list[CountWindows(a, w - 1) + CountTabs(a.windows[w], t - 1) + s]
                    = a.windows[w].tabs[t].sessions[s]

\* C5: with all_sessions or session_id 'all', get_target_sessions returns every
\* session once per occurrence, in window, then tab, then session order.
C5_AllInOrder ==
    op = "get_target_sessions" /\ (all_sessions \/ session_id = ALL) =>
        /\ outcome = "returned"
        /\ InHierarchyOrder(app, ret_list)

\* 'all' over two windows of 1 and 2 tabs, the last tab holding two sessions.
C5_Witness ==
    /\ op = "get_target_sessions"
    /\ ~all_sessions
    /\ session_id = ALL
    /\ Len(app.windows) = 2
    /\ Len(app.windows[1].tabs) = 1
    /\ Len(app.windows[2].tabs) = 2
    /\ Len(app.windows[2].tabs[2].sessions) = 2
    /\ Len(ret_list) = 4

\* C6: all_sessions wins over every session_id: the flattened list is returned,
\* the by-ID accessor is not called, no current_* attribute is read, nothing
\* is printed and the program does not exit.
C6_AllFlagFirst ==
    op = "get_target_sessions" /\ all_sessions =>
        /\ outcome = "returned"
        /\ exit_code = 0
        /\ stderr = <<>>
        /\ by_id_calls = <<>>
        /\ active_reads = <<>>
        /\ InHierarchyOrder(app, ret_list)

\* all_sessions with an id the host does not know and no current window.
C6_Witness ==
    /\ op = "get_target_sessions"
    /\ all_sessions
    /\ session_id = NONEXISTENT_ID
    /\ app.by_id = <<>>
    /\ app.current_terminal_window = 0
    /\ Len(ret_list) >= 2

\* C7: a specific id the lookup helper finds no session for makes
\* get_target_sessions exit with code 3 and "Session '<id>' not found", the id
\* as it was given; no list is returned.
C7_NotFoundNamesGivenId ==
    ( /\ op = "get_target_sessions"
      /\ ~all_sessions
      /\ session_id \notin {NONE, <<>>, ALL, ACTIVE}
      /\ get_session_by_id(app, session_id).session = NoSession )
    => /\ outcome = "exit"
       /\ exit_code = 3
       /\ ret_list = <<>>
       /\ stderr = <<[fmt |-> "Error: Session '{session_id}' not found",
                      arg |-> session_id]>>

\* An alias the host knows neither as given nor normalized.
C7_Witness ==
    /\ op = "get_target_sessions"
    /\ ~all_sessions
    /\ session_id = ALIAS_DOT
    /\ normalize_session_id(session_id) # session_id
    /\ outcome = "exit"

\* The call went through the lookup helper and nowhere else: it returned the
\* session the helper found, or failed with session-not-found.
ResolvedByLookup ==
    LET found == get_session_by_id(app, session_id) IN
    /\ active_reads = <<>>
    /\ by_id_calls = found.calls
    /\ \/ /\ found.session # NoSession
          /\ outcome = "returned"
          /\ ret_list = <<found.session>>
       \/ /\ found.session = NoSession
          /\ outcome = "exit"
          /\ exit_code = 3
          /\ Len(stderr) = 1
          /\ stderr[1].fmt = "Error: Session '{session_id}' not found"

\* C8 as stated: every non-null session_id other than 'active' and 'all', the
\* empty string included, is resolved through the lookup helper.
C8_NonNullByLookup ==
    ( /\ op = "get_target_sessions"
      /\ ~all_sessions
      /\ session_id \notin {NONE, ACTIVE, ALL} )
    => ResolvedByLookup

\* C8 amended: every non-empty session_id other than 'active' and 'all' is
\* resolved through the lookup helper; the empty string is handled as null
\* is, by the active rule, without a lookup.
C8_NonEmptyByLookup ==
    op = "get_target_sessions" /\ ~all_sessions =>
        /\ session_id \notin {NONE, <<>>, ACTIVE, ALL} => ResolvedByLookup
        /\ session_id = <<>> => by_id_calls = <<>> /\ active_reads # <<>>

\* An id found by the lookup although another session is the active one.
C8_Witness ==
    /\ op = "get_target_sessions"
    /\ ~all_sessions
    /\ session_id = UUID_LOWER
    /\ outcome = "returned"
    /\ app.current_terminal_window # 0
    /\ app.windows[app.current_terminal_window].current_tab # 0
    /\ LET w == app.windows[app.current_terminal_window]
       IN  w.tabs[w.current_tab].current_session \notin {NoSession, ret_list[1]}

\* The one line an active-rule failure prints, with exit code 3.
FailedWith(text) ==
    /\ outcome = "exit"
    /\ exit_code = 3
    /\ ret_list = <<>>
    /\ stderr = <<[fmt |-> text, arg |-> NONE]>>

\* C9: for session_id null or 'active' the first absent level, in the order
\* window, tab, session, decides the single error; the exit code is 3 and the
\* by-ID accessor is not called.
C9_FirstAbsentLevel ==
    op = "get_target_sessions" /\ ~all_sessions /\ session_id \in {NONE, ACTIVE} =>
        /\ by_id_calls = <<>>
        /\ app.current_terminal_window = 0 => FailedWith("Error: No active window found")
        /\ app.current_terminal_window # 0 =>
            LET w == app.windows[app.current_terminal_window] IN
            /\ w.current_tab = 0 => FailedWith("Error: No active tab found")
            /\ w.current_tab # 0 /\ w.tabs[w.current_tab].current_session = NoSession
                => FailedWith("Error: No active session found")

\* 'active' with a current window that has tabs but no current tab.
C9_Witness ==
    /\ op = "get_target_sessions"
    /\ ~all_sessions
    /\ session_id = ACTIVE
    /\ app.current_terminal_window # 0
    /\ app.windows[app.current_terminal_window].tabs # <<>>
    /\ app.windows[app.current_terminal_window].current_tab = 0
    /\ outcome = "exit"

\* C10: when the current window, its current tab and that tab's current
\* session exist, session_id null and 'active' both return the one-element
\* list of that session.
C10_ActiveSession ==
    ( /\ op = "get_target_sessions"
      /\ ~all_sessions
      /\ session_id \in {NONE, ACTIVE}
      /\ app.current_terminal_window # 0
      /\ app.windows[app.current_terminal_window].current_tab # 0
      /\ LET w == app.windows[app.current_terminal_window]
         IN  w.tabs[w.current_tab].current_session # NoSession )
    => LET w == app.windows[app.current_terminal_window] IN
       /\ outcome = "returned"
       /\ exit_code = 0
       /\ stderr = <<>>
       /\ ret_list = <<w.tabs[w.current_tab].current_session>>

\* No session_id, and the active session is the last of several sessions.
C10_Witness ==
    /\ op = "get_target_sessions"
    /\ ~all_sessions
    /\ session_id = NONE
    /\ outcome = "returned"
    /\ Len(ExtendWindows(<<>>, app.windows)) >= 4
    /\ ret_list = <<Session(2, 2, 2)>>

\* C11: an alias id naming a session the host has resolves to the one-element
\* list of that session, whether the host's accessor knows the session under
\* the bare UUID or only under the alias string.
C11_AliasResolves ==
    op = "get_target_sessions" /\ ~all_sessions /\ IsAliasText(session_id) =>
        LET under_uuid == HostLookup(app, UuidOfAlias(session_id))
            under_alias == HostLookup(app, session_id)
        IN  /\ under_uuid # NoSession
                => outcome = "returned" /\ ret_list = <<under_uuid>>
            /\ under_uuid = NoSession /\ under_alias # NoSession
                => outcome = "returned" /\ ret_list = <<under_alias>>

\* The colon alias, which the host knows under the bare UUID only.
C11_Witness ==
    /\ op = "get_target_sessions"
    /\ ~all_sessions
    /\ session_id = ALIAS_COLON
    /\ DOMAIN app.by_id = {UUID_LOWER}
    /\ outcome = "returned"
    /\ ret_list = <<app.by_id[UUID_LOWER]>>

\* The host has a profile of exactly this name.
HasProfile(name) == \E i \in 1..Len(profiles) : profiles[i] = name

\* The request was sent to the host.
Called(request) == \E i \in 1..Len(host_calls) : host_calls[i] = request

\* C12: for X a bare UUID, an alias, 'active' or absent, `profile apply
\* --session X` of an existing profile applies it to the session
\* get_target_sessions(app, X) returns, and fails with the resolver's exit
\* code, applying nothing, when the resolver fails.
C12_ApplyAsResolver ==
    ( /\ cmd = "profile apply"
      /\ pc = "done"
      /\ HasProfile(argv.name)
      /\ session_id \in {NONE, ACTIVE, UUID_LOWER, UUID_MIXED, ALIAS_COLON, ALIAS_DOT} ) =>
        LET r == get_target_sessions(app, session_id, FALSE) IN
        IF r.outcome = "returned"
        THEN /\ outcome = "returned"
             /\ exit_code = 0
             /\ Called(SET_PROFILE)
             /\ target_session = r.sessions[1]
        ELSE /\ outcome = "exit"
             /\ exit_code = r.exit_code
             /\ ~Called(SET_PROFILE)

\* The last line printed is the one of the interrupt, and no other is.
StoppedLast ==
    /\ Len(stdout) >= 1
    /\ \A i \in 1..Len(stdout) :
        stdout[i].fmt = "\nMonitoring stopped" <=> i = Len(stdout)

\* C13: once the interrupt has arrived in a monitoring loop, the command has
\* ended with exit code 0 and 'Monitoring stopped' is the last line it
\* printed, whatever the handler was waiting for or had received.
C13_InterruptStops ==
    interrupted =>
        /\ pc = "done"
        /\ outcome = "returned"
        /\ exit_code = 0
        /\ stderr = <<>>
        /\ pending = <<>>
        /\ StoppedLast

\* The interrupt arrived when a keystroke had been received and not printed yet.
C13_Witness ==
    /\ interrupted
    /\ cmd = "monitor keystroke"
    /\ argv.pattern = NONE
    /\ iterations = 1
    /\ event = Answer(<<"k">>)
    /\ Len(stdout) = 3
    /\ stdout[3] = Line("\nMonitoring stopped", NONE)

\* C14: a handler whose loop has started ends in no step but the one in which
\* the interrupt arrives, whatever the host hands over.
C14_OnlyInterruptEnds ==
    [][(iterations >= 1 /\ pc # "done" /\ pc' = "done") => (~interrupted /\ interrupted')]_vars

\* `monitor output --follow` has handled MaxIterations updates, the last one
\* None, and waits for the next.
C14_Witness ==
    /\ cmd = "monitor output"
    /\ iterations = MaxIterations + 1
    /\ pc = STREAMER_GET
    /\ pending = <<STREAMER_GET>>
    /\ event.kind = "none"
    /\ ~interrupted

\* The items the regex finds a match in, in their order, each as often as it
\* occurs.
RECURSIVE Found(_, _)
Found(regex, items) ==
    IF Len(items) = 0 THEN <<>>
    ELSE (IF regex_search(regex, Head(items)) THEN <<Head(items)>> ELSE <<>>)
         \o Found(regex, Tail(items))

\* The text the lines put on the terminal: click.echo ends each with a line feed.
RECURSIVE Written(_)
Written(lines) ==
    IF Len(lines) = 0 THEN <<>>
    ELSE Head(lines).arg \o <<"\n">> \o Written(Tail(lines))

\* The text of the items, a line each.
RECURSIVE AsLines(_)
AsLines(items) ==
    IF Len(items) = 0 THEN <<>>
    ELSE Head(items) \o <<"\n">> \o AsLines(Tail(items))

\* What the step printed.
Printed == SubSeq(stdout', Len(stdout) + 1, Len(stdout'))

\* The step in which `monitor output` handles a screen, or `monitor keystroke`
\* a keystroke.
HandlesScreen ==
    /\ cmd = "monitor output"
    /\ pending = <<>>
    /\ pc \in {STREAMER_GET, GET_SCREEN_CONTENTS}
    /\ event.kind = "value"
    /\ ~interrupted'
    /\ pc' = "done" \/ iterations' = iterations + 1

HandlesKeystroke ==
    /\ cmd = "monitor keystroke"
    /\ pending = <<>>
    /\ pc = KEYSTROKE_GET
    /\ ~interrupted'
    /\ iterations' = iterations + 1

\* What C15 says of a step, for the patterns that count as given.
FiltersBy(patterns_given) ==
    /\ HandlesScreen /\ patterns_given =>
        /\ \A i \in 1..Len(Printed) : Printed[i].fmt \in {"{ln}", "{text}"}
        /\ Written(Printed) = AsLines(Found(argv.pattern, event.value))
    /\ HandlesKeystroke =>
        /\ \A i \in 1..Len(Printed) : Printed[i].fmt = "Keystroke: {key_str}"
        /\ Written(Printed) =
            AsLines(IF patterns_given THEN Found(argv.pattern, <<event.value>>)
                    ELSE <<event.value>>)

\* C15 as stated: with --pattern given, the screen lines and the keystrokes
\* printed are those the regex finds a match in, in order, once each; without
\* --pattern every keystroke is printed.
C15_PatternGivenFilters ==
    [][FiltersBy(argv.pattern # NONE)]_vars

\* C15 for the patterns the handlers compile: with a non-empty --pattern, the
\* screen lines and the keystrokes printed are those the regex finds a match
\* in, in order, once each; without --pattern, or with an empty one, every
\* keystroke is printed.
C15_NonEmptyPatternFilters ==
    [][FiltersBy(argv.pattern # NONE /\ argv.pattern # <<>>)]_vars

\* Of a screen whose three lines all hold ER, the three are printed in the
\* screen's order, the line that occurs twice printed twice.
C15_Witness ==
    /\ cmd = "monitor output"
    /\ argv.pattern = <<"E", "R">>
    /\ ~argv.follow
    /\ pc = "done"
    /\ stdout = <<Line("{ln}", L_ER_LAST), Line("{ln}", L_ER_FIRST),
                  Line("{ln}", L_ER_FIRST)>>

\* C16: with a --pattern that is no regular expression and a target session
\* that resolves, `monitor output` and `monitor keystroke` end with exit code
\* 4 and 'Invalid regex pattern', having sent no request to the host and
\* printed nothing.
C16_InvalidPattern ==
    ( /\ cmd \in {"monitor output", "monitor keystroke"}
      /\ argv.pattern \in InvalidPatterns
      /\ get_target_sessions(app, session_id, FALSE).outcome = "returned"
      /\ get_target_sessions(app, session_id, FALSE).sessions # <<>>
      /\ pc # "start" ) =>
        /\ pc = "done"
        /\ outcome = "exit"
        /\ exit_code = 4
        /\ stderr = <<Line("Invalid regex pattern: {e}", NONE)>>
        /\ host_calls = <<>>
        /\ pending = <<>>
        /\ stdout = <<>>

C16_Witness ==
    /\ cmd = "monitor keystroke"
    /\ argv.pattern = <<"[">>
    /\ target_session = Session(1, 1, 1)
    /\ pc = "done"
    /\ exit_code = 4

\* C17: when the host has no profile of exactly the name asked for, `profile
\* show`, `profile apply` and `profile set` send the host the query of the
\* profiles and nothing else, look up no session, and end with exit code 3 and
\* "Profile '<name>' not found".
C17_ProfileNotFound ==
    ( /\ cmd \in {"profile show", "profile apply", "profile set"}
      /\ ~HasProfile(argv.name) ) =>
        /\ host_calls \in {<<>>, <<PROFILES_QUERY>>}
        /\ by_id_calls = <<>>
        /\ active_reads = <<>>
        /\ target_session = NoSession
        /\ stdout = <<>>
        /\ pc \in {"start", PROFILES_QUERY, "done"}
        /\ pc = "done" =>
            /\ outcome = "exit"
            /\ exit_code = 3
            /\ stderr = <<Line("Profile '{name}' not found", argv.name)>>

\* `profile apply` on a host whose profiles differ from the name in case only.
C17_Witness ==
    /\ cmd = "profile apply"
    /\ profiles = <<DEV_LOWER, OPS>>
    /\ session_id = UUID_LOWER
    /\ UUID_LOWER \in DOMAIN app.by_id
    /\ pc = "done"
    /\ exit_code = 3

\* The property names `profile set` knows.
KnownProperties ==
    {FONT_SIZE, FONT_FAMILY, BG_COLOR, FG_COLOR, TRANSPARENCY, BLUR, CURSOR_COLOR,
     SELECTION_COLOR, BADGE_TEXT}

\* Six hexadecimal digits, with or without a '#' before them.
IsColourText(v) ==
    LET hex == IF Len(v) >= 1 /\ v[1] = "#" THEN Tail(v) ELSE v IN
    Len(hex) = 6 /\ \A i \in 1..6 : hex[i] \in HexChars

\* A decimal number: digits with at most one point, a sign before them or none.
IsNumberText(v) ==
    LET body == IF Len(v) >= 1 /\ v[1] \in {"+", "-"} THEN Tail(v) ELSE v IN
    /\ \E i \in 1..Len(body) : body[i] \in AsciiDigits
    /\ \A i \in 1..Len(body) : body[i] \in AsciiDigits \cup {"."}
    /\ Count(body, ".") <= 1

\* The user input C18 calls invalid.
InvalidInput(property_name, value) ==
    \/ property_name \notin KnownProperties
    \/ /\ property_name \in {BG_COLOR, FG_COLOR, CURSOR_COLOR, SELECTION_COLOR}
       /\ ~IsColourText(value)
    \/ /\ property_name \in {TRANSPARENCY, FONT_SIZE}
       /\ ~IsNumberText(value)

\* C18: `profile set` of an existing profile with an unknown property name, a
\* colour that is not six hexadecimal digits, or a transparency or font size
\* that is no number sends no setter to the host, prints no success line and
\* ends with exit code 4.
C18_InvalidInputRejected ==
    ( /\ cmd = "profile set"
      /\ HasProfile(argv.name)
      /\ InvalidInput(argv.property_name, argv.value) ) =>
        /\ \A i \in 1..Len(host_calls) : host_calls[i] \notin PropertySetters
        /\ stdout = <<>>
        /\ pc = "done" => exit_code = 4

\* C19: when `profile set` has a known property and a well-formed value and
\* the setter sent to the host fails, the command ends with exit code 1.
C19_SetterFailureIsOperationFailure ==
    ( /\ cmd = "profile set"
      /\ ~InvalidInput(argv.property_name, argv.value)
      /\ \E i \in 1..Len(host_calls) : host_calls[i] \in PropertySetters
      /\ event.kind = "raised"
      /\ pc = "done" ) =>
        exit_code = 1

\* C20: at no time has an invocation more than one request with the host
\* that the host has not answered, and the request it waits for is the one it
\* sent last.
C20_OneOutstanding ==
    /\ Len(pending) <= 1
    /\ Len(pending) = 1 => pending[1] = host_calls[Len(host_calls)]

\* `profile set` waits for the setter, its third request.
C20_Witness ==
    /\ cmd = "profile set"
    /\ host_calls = <<PROFILES_QUERY, GET_FULL_PROFILE, "async_set_normal_font">>
    /\ pending = <<"async_set_normal_font">>

\* C24: with the all flag or the id "all" over a hierarchy that holds no
\* session, get_target_sessions returns the empty list: it prints nothing and
\* does not exit.
C24_EmptyAllReturns ==
    (/\ op = "get_target_sessions"
     /\ (all_sessions \/ session_id = ALL)
     /\ ExtendWindows(<<>>, app.windows) = <<>>) =>
        /\ outcome = "returned"
        /\ ret_list = <<>>
        /\ exit_code = 0
        /\ stderr = <<>>

\* The id "all", without the flag, over two windows whose tabs are empty.
C24_Witness ==
    /\ op = "get_target_sessions"
    /\ ~all_sessions
    /\ session_id = ALL
    /\ Len(app.windows) = 2
    /\ Len(app.windows[1].tabs) >= 1
    /\ ExtendWindows(<<>>, app.windows) = <<>>
    /\ outcome = "returned"
    /\ ret_list = <<>>

\* C26: one call of get_session_by_id invokes the host's accessor not at all
\* for a null id, otherwise first with the normalized id, and a second time,
\* with the original id, only if the first call found nothing and normalizing
\* changed the id; never more than twice, and exactly once when the id is not
\* an alias or the lookup of the normalized id succeeds.
C26_AccessorCalls ==
    op = "get_session_by_id" =>
        LET n == normalize_session_id(session_id) IN
        IF session_id = NONE THEN by_id_calls = <<>>
        ELSE /\ Len(by_id_calls) \in 1..2
             /\ by_id_calls[1] = n
             /\ Len(by_id_calls) = 2 =>
                    /\ HostLookup(app, n) = NoSession
                    /\ n # session_id
                    /\ by_id_calls[2] = session_id
             /\ (~IsAliasText(session_id) \/ HostLookup(app, n) # NoSession) =>
                    Len(by_id_calls) = 1

\* The monitor subcommands that resolve a target.
ResolvesTarget ==
    /\ cmd \in {"monitor output", "monitor keystroke", "monitor variable",
                "monitor prompt"}
    /\ ~(cmd = "monitor variable" /\ argv.app_level)

\* C25: a monitor subcommand that resolves a target either fails through the
\* resolver's error path or takes the first session of a non-empty list, for
\* every --session value; it never indexes into an empty list.
C25_NonEmptyTarget ==
    (ResolvesTarget /\ pc # "start") =>
        LET r == get_target_sessions(app, session_id, FALSE) IN
        IF r.outcome = "exit"
        THEN /\ pc = "done"
             /\ outcome = "exit"
             /\ exit_code = r.exit_code
             /\ stderr = r.stderr
        ELSE /\ outcome # "raised"
             /\ r.sessions # <<>>
             /\ target_session = r.sessions[1]

\* C30: `monitor output` and `monitor keystroke` resolve the target before
\* they compile the pattern: when the resolver fails the command ends with
\* the resolver's exit code 3 and message whatever the pattern is, having sent
\* the host nothing, and exit code 4 occurs only with a resolved target.
C30_ResolvedBeforeCompiled ==
    cmd \in {"monitor output", "monitor keystroke"} =>
        LET r == get_target_sessions(app, session_id, FALSE) IN
        /\ (r.outcome = "exit" /\ pc # "start") =>
              /\ pc = "done"
              /\ outcome = "exit"
              /\ exit_code = 3
              /\ stderr = r.stderr
              /\ host_calls = <<>>
        /\ exit_code = 4 =>
              /\ r.outcome = "returned"
              /\ r.sessions # <<>>
              /\ target_session = r.sessions[1]

\* `monitor output` with an id the host does not know and a pattern that is
\* no regular expression has ended with the resolver's error.
C30_Witness ==
    /\ cmd = "monitor output"
    /\ argv.pattern \in InvalidPatterns
    /\ session_id = NONEXISTENT_ID
    /\ pc = "done"
    /\ exit_code = 3
    /\ stderr = <<SessionNotFound(NONEXISTENT_ID)>>

\* The handler of `monitor activity` takes the answer to its isActive request.
Observes ==
    /\ cmd = "monitor activity"
    /\ pc = IS_ACTIVE
    /\ pending = <<>>
    /\ app' = app
    /\ ~interrupted'

\* It takes the answer to its name request.
Names ==
    /\ cmd = "monitor activity"
    /\ pc = SESSION_NAME
    /\ pending = <<>>
    /\ app' = app
    /\ ~interrupted'

\* C27: in `monitor activity` the first observation of a session's isActive
\* value records it and prints nothing; a later observation leads to one
\* 'Session active'/'Session idle' line, chosen by the observed value, if and
\* only if the value differs from the recorded one; after every observation
\* the recorded value is the observed one; nothing else prints a line in the
\* loop; and without --all a session is observed only if it is the current
\* session when the handler comes to it.
C27_ActivityObservations ==
    [][LET session == LoopSessions(app)[cursor] IN
       /\ Observes =>
            /\ session \in DOMAIN session_activity'
            /\ session_activity'[session] = event.value
            /\ \A other \in DOMAIN session_activity' \ {session} :
                  /\ other \in DOMAIN session_activity
                  /\ session_activity'[other] = session_activity[other]
            /\ stdout' = stdout
            /\ pc' = SESSION_NAME <=>
                  /\ session \in DOMAIN session_activity
                  /\ session_activity[session] # event.value
       /\ Names =>
            /\ session_activity' = session_activity
            /\ Len(stdout') = Len(stdout) + 1
            /\ SubSeq(stdout', 1, Len(stdout)) = stdout
            /\ stdout'[Len(stdout')].fmt =
                  IF session_activity[session] THEN "Session active: {name}"
                  ELSE "Session idle: {name}"
       /\ (cmd = "monitor activity" /\ pc # "start" /\ ~interrupted'
           /\ stdout' # stdout) => Names
       /\ (cmd = "monitor activity" /\ ~all_sessions /\ host_calls' # host_calls
           /\ pc' = IS_ACTIVE) =>
            LoopSessions(app)[cursor'] = CurrentSession(app)
      ]_vars

\* Without --all two sessions were observed, each while it was the current
\* one, and a change of the second was reported as 'Session idle'.
C27_Witness ==
    /\ cmd = "monitor activity"
    /\ ~all_sessions
    /\ DOMAIN session_activity = {Session(1, 1, 1), Session(1, 1, 2)}
    /\ ~session_activity[Session(1, 1, 2)]
    /\ stdout # <<>>
    /\ stdout[Len(stdout)].fmt = "Session idle: {name}"

\* The ids of `app broadcast add` the host's accessor finds no session for.
NotFoundIds ==
    { i \in 1..Len(argv.session_ids) : argv.session_ids[i] \notin DOMAIN app.by_id }

\* C28: `app broadcast add` is all-or-nothing.  If the host's accessor finds
\* no session for one of the ids, no step of the command changes the host's
\* broadcast domains or sends the host a request, and the command ends with
\* exit code 3 and "Session '<id>' not found" for the first such id.  If it
\* finds one for each, set_broadcast_domains is called once, with one domain
\* that holds the sessions in the order of the arguments, and the command
\* ends with exit code 0.
C28_BroadcastAllOrNothing ==
    [][(cmd = "app broadcast add" /\ connection = "established") =>
        IF NotFoundIds # {}
        THEN /\ broadcast_domains' = broadcast_domains
             /\ host_calls' = <<>>
             /\ pc' = "done" =>
                  /\ outcome' = "exit"
                  /\ exit_code' = 3
                  /\ \E i \in NotFoundIds :
                        /\ \A j \in NotFoundIds : i <= j
                        /\ stderr' = <<Line("Session '{sid}' not found",
                                            argv.session_ids[i])>>
        ELSE /\ host_calls' = <<SET_BROADCAST_DOMAINS>>
             /\ Len(broadcast_domains') = 1
             /\ Len(broadcast_domains'[1]) = Len(argv.session_ids)
             /\ \A i \in 1..Len(argv.session_ids) :
                    broadcast_domains'[1][i] = app.by_id[argv.session_ids[i]]
             /\ pc' = "done" => (outcome' = "returned" /\ exit_code' = 0)
      ]_vars

\* Two ids, the second unknown to a host that broadcasts to a session: the
\* command has ended with exit code 3 and the domain is as it was.
C28_Witness ==
    /\ cmd = "app broadcast add"
    /\ argv.session_ids = <<UUID_LOWER, NONEXISTENT_ID>>
    /\ UUID_LOWER \in DOMAIN app.by_id
    /\ pc = "done"
    /\ exit_code = 3
    /\ broadcast_domains = <<<<Session(1, 1, 2)>>>>

\* C29: `app quit` selects the Quit menu item only with --force or after the
\* user confirmed; when the user declines, the command aborts, the menu item
\* is never selected and 'iTerm2 quit command sent' is not printed.
C29_QuitNeedsConsent ==
    (cmd = "app quit" /\ connection = "established") =>
        /\ host_calls # <<>> => (argv.force \/ argv.confirmed)
        /\ (~argv.force /\ ~argv.confirmed) =>
              /\ host_calls = <<>>
              /\ pending = <<>>
              /\ \A i \in 1..Len(stdout) : stdout[i].fmt # "iTerm2 quit command sent"
              /\ pc \in {"start", "done"}
              /\ pc = "done" => outcome = "aborted"

\* Without --force the user declined and the command has aborted.
C29_Witness ==
    /\ cmd = "app quit"
    /\ ~argv.force
    /\ ~argv.confirmed
    /\ pc = "done"
    /\ outcome = "aborted"
    /\ host_calls = <<>>

\* The windows of the host whose id is the one `window focus` was given.
WindowsOfId == { w \in 1..Len(app.windows) : WindowIdOf(w) = argv.window_id }

\* C21: `window focus <id>` with an id that no window of the host has ends
\* with exit code 3 and "Window '<id>' not found" and activates no window;
\* with the id of a window it activates that window, once, and ends with
\* exit code 0.
C21_FocusByWindowId ==
    (cmd = "window focus" /\ connection = "established") =>
        IF WindowsOfId = {}
        THEN /\ host_calls = <<>>
             /\ pc \in {"start", "done"}
             /\ pc = "done" =>
                  /\ outcome = "exit"
                  /\ exit_code = 3
                  /\ stderr = <<Line("Window '{window_id}' not found", argv.window_id)>>
        ELSE /\ host_calls \in {<<>>, <<WINDOW_ACTIVATE>>}
             /\ host_calls # <<>> => cursor \in WindowsOfId
             /\ pc = "done" =>
                  /\ host_calls = <<WINDOW_ACTIVATE>>
                  /\ outcome = "returned"
                  /\ exit_code = 0

\* The second of two windows was asked for and has been activated.
C21_Witness ==
    /\ cmd = "window focus"
    /\ Len(app.windows) = 2
    /\ argv.window_id = WindowIdOf(2)
    /\ cursor = 2
    /\ host_calls = <<WINDOW_ACTIVATE>>
    /\ pc = "done"
    /\ exit_code = 0

\* The calls of set_fullscreen among the requests sent, in order.
SetFullscreenCalls ==
    SelectSeq(host_calls, LAMBDA c : c \in {SET_FULLSCREEN(TRUE), SET_FULLSCREEN(FALSE)})

\* C22: `window fullscreen on` and `off` call set_fullscreen, once and with
\* the requested state, if and only if the window's state differs from it,
\* and otherwise report 'already enabled'/'already disabled'; `toggle` calls
\* it once with the negation of the window's state; all end with exit code 0.
C22_FullscreenSetsOnChange ==
    (cmd = "window fullscreen" /\ connection = "established") =>
        LET requested == argv.mode = ON
            expected ==
                IF argv.mode = TOGGLE THEN <<SET_FULLSCREEN(~app.fullscreen)>>
                ELSE IF requested # app.fullscreen THEN <<SET_FULLSCREEN(requested)>>
                ELSE <<>>
        IN  /\ SetFullscreenCalls \in {<<>>, expected}
            /\ pc = "done" =>
                  /\ SetFullscreenCalls = expected
                  /\ outcome = "returned"
                  /\ exit_code = 0
                  /\ expected = <<>> =>
                        stdout = <<Line(IF requested THEN "Fullscreen already enabled"
                                        ELSE "Fullscreen already disabled", NONE)>>

\* `toggle` on a window in fullscreen has set the state to False.
C22_Witness ==
    /\ cmd = "window fullscreen"
    /\ argv.mode = TOGGLE
    /\ app.fullscreen
    /\ host_calls = <<GET_FULLSCREEN, SET_FULLSCREEN(FALSE)>>
    /\ pc = "done"
    /\ exit_code = 0

\* C23: without the cookie and without a connection a command ends with exit
\* code 2 and 'Not running inside iTerm2', and nothing is asked of the host:
\* no request is sent, no accessor called, no current_* attribute read and
\* no broadcast domain set.
C23_NoConnection ==
    connection = "failed" =>
        /\ host_calls = <<>>
        /\ pending = <<>>
        /\ by_id_calls = <<>>
        /\ active_reads = <<>>
        /\ broadcast_domains = <<>>
        /\ stdout = <<>>
        /\ pc \in {"connect", "done"}
        /\ pc = "done" =>
              /\ outcome = "exit"
              /\ exit_code = 2
              /\ stderr = <<Line("Not running inside iTerm2", NONE)>>

\* `app activate` without a connection has ended with exit code 2.
C23_Witness ==
    /\ connection = "failed"
    /\ cmd = "app activate"
    /\ pc = "done"
    /\ exit_code = 2
    /\ host_calls = <<>>

====

